---- MODULE Spec2Model ----
(***************************************************************************)
(* Report construction of BrFin: the Corporation and Finance classes and   *)
(* the pandas operations they are written with.                            *)
(*                                                                         *)
(* A DataFrame is a sequence of rows (records), a string that the code     *)
(* measures, slices or orders is a sequence of one-character strings, a    *)
(* date is the integer YYYYMMDD (NaT is a value of its own that compares   *)
(* false with everything), and a float is an exact fraction <<n, d>> with  *)
(* d >= 0: <<0, 0>> is NaN, <<1, 0>> and <<-1, 0>> are the infinities.     *)
(* Rounding of binary floating point is not modelled.                      *)
(***************************************************************************)
EXTENDS Integers, Sequences, FiniteSets, TLC

VARIABLES
    DATASET,    \* the class attribute DATASET: the process-wide fact table
    corp,       \* the Corporation object's attributes (NoObject: not built)
    fin,        \* the Finance object's attributes (NoObject: not built)
    call,       \* the last call made on an object, with its arguments
    ret,        \* what that call returned or raised
    ncalls,     \* the number of calls made so far
    fldb        \* finlogic's raw folder and reports table (NoObject: none)

vars == <<DATASET, corp, fin, call, ret, ncalls, fldb>>

----------------------------------------------------------------------------
(* Bounds of the model *)

\* rows of one company in DATASET (report specifications)
MaxFacts == 2
\* calls made on the objects in one run
MaxCalls == 1
\* calls made one after the other on the same objects
MaxSeq == 2
\* rows of the company in DATASET when calls are made one after the other
MaxFrameFacts == 2
\* arguments of report() that differ from their default value in one call
MaxDev == 2
\* rows of the company in DATASET when the LTM reconstruction is called
MaxFlowFacts == 3
\* CVM files there are
MaxFiles == 3
\* assignments of the identity and reports made one after the other
MaxIdCalls == 3
\* rows of the company in DATASET when reports are made in several units
MaxUnitFacts == 4
\* length of the series handed to shift_right
MaxLen == 3
\* cells of the annual report filed as zero or left out when
\* operating_performance is called
MaxVar == 2

----------------------------------------------------------------------------
(* Strings *)

Ord(c) ==
    CASE c = " " -> 32 [] c = "(" -> 40 [] c = ")" -> 41 [] c = "-" -> 45
      [] c = "." -> 46 [] c = "/" -> 47
      [] c = "0" -> 48 [] c = "1" -> 49 [] c = "2" -> 50 [] c = "3" -> 51
      [] c = "4" -> 52 [] c = "5" -> 53 [] c = "6" -> 54 [] c = "7" -> 55
      [] c = "8" -> 56 [] c = "9" -> 57
      [] c = "l" -> 108 [] c = "m" -> 109 [] c = "t" -> 116 [] c = "x" -> 120

\* the characters of the string literals of the program and of its callers
Str(s) ==
    CASE s = "" -> <<>>
      [] s = "1" -> <<"1">>
      [] s = "2" -> <<"2">>
      [] s = "3" -> <<"3">>
      [] s = "6" -> <<"6">>
      [] s = "1.01" -> <<"1", ".", "0", "1">>
      [] s = "1.10" -> <<"1", ".", "1", "0">>
      [] s = "1.2" -> <<"1", ".", "2">>
      [] s = "1.01.01" -> <<"1", ".", "0", "1", ".", "0", "1">>
      [] s = "1.01.02" -> <<"1", ".", "0", "1", ".", "0", "2">>
      [] s = "1.01.01.01" -> <<"1", ".", "0", "1", ".", "0", "1", ".", "0", "1">>
      [] s = "1.2.3.4" -> <<"1", ".", "2", ".", "3", ".", "4">>
      [] s = "2.01" -> <<"2", ".", "0", "1">>
      [] s = "2.02" -> <<"2", ".", "0", "2">>
      [] s = "2.03" -> <<"2", ".", "0", "3">>
      [] s = "2.01.04" -> <<"2", ".", "0", "1", ".", "0", "4">>
      [] s = "2.02.01" -> <<"2", ".", "0", "2", ".", "0", "1">>
      [] s = "3.01" -> <<"3", ".", "0", "1">>
      [] s = "3.03" -> <<"3", ".", "0", "3">>
      [] s = "3.05" -> <<"3", ".", "0", "5">>
      [] s = "3.11" -> <<"3", ".", "1", "1">>
      [] s = "3.99" -> <<"3", ".", "9", "9">>
      [] s = "3.99.01.01" -> <<"3", ".", "9", "9", ".", "0", "1", ".", "0", "1">>
      [] s = "3.99.02.01" -> <<"3", ".", "9", "9", ".", "0", "2", ".", "0", "1">>
      [] s = "2009-01-01" -> <<"2", "0", "0", "9", "-", "0", "1", "-", "0", "1">>
      [] s = "2009-12-31" -> <<"2", "0", "0", "9", "-", "1", "2", "-", "3", "1">>
      [] s = "2021-01-01" -> <<"2", "0", "2", "1", "-", "0", "1", "-", "0", "1">>
      [] s = "2021-12-31" -> <<"2", "0", "2", "1", "-", "1", "2", "-", "3", "1">>
      [] s = "2022-01-01" -> <<"2", "0", "2", "2", "-", "0", "1", "-", "0", "1">>
      [] s = "2200-12-31" -> <<"2", "2", "0", "0", "-", "1", "2", "-", "3", "1">>
      [] s = "xx" -> <<"x", "x">>
      [] s = "x.01" -> <<"x", ".", "0", "1">>
      [] s = " (ltm)" -> <<" ", "(", "l", "t", "m", ")">>

IsDigit(c) == c \in {"0", "1", "2", "3", "4", "5", "6", "7", "8", "9"}

DigitVal(c) == Ord(c) - Ord("0")

\* Python's str < str: by code point, a proper prefix first
RECURSIVE StrLess(_, _)
StrLess(a, b) ==
    IF a = <<>> THEN b # <<>>
    ELSE IF b = <<>> THEN FALSE
    ELSE IF a[1] = b[1] THEN StrLess(Tail(a), Tail(b))
    ELSE Ord(a[1]) < Ord(b[1])

StrLeq(a, b) == a = b \/ StrLess(a, b)

\* str.startswith
StartsWith(s, p) == Len(p) <= Len(s) /\ SubSeq(s, 1, Len(p)) = p

\* str.split("."): the dot-separated segments of a string
RECURSIVE SplitDots(_)
SplitDots(s) ==
    IF \A i \in 1..Len(s) : s[i] # "." THEN <<s>>
    ELSE LET k == CHOOSE i \in 1..Len(s) :
                      s[i] = "." /\ \A j \in 1..(i - 1) : s[j] # "."
         IN  <<SubSeq(s, 1, k - 1)>> \o SplitDots(SubSeq(s, k + 1, Len(s)))

\* the decimal value of a string of digits (0 for the empty string)
RECURSIVE DecVal(_)
DecVal(s) ==
    IF s = <<>> THEN 0
    ELSE 10 * DecVal(SubSeq(s, 1, Len(s) - 1)) + DigitVal(s[Len(s)])

----------------------------------------------------------------------------
(* Dates *)

NaT == -1

Date(y, m, d) == y * 10000 + m * 100 + d

YearOf(d) == d \div 10000
MonthOf(d) == (d \div 100) % 100
DayOf(d) == d % 100

\* comparisons of pandas timestamps: every comparison with NaT is False
DateEq(a, b) == a # NaT /\ b # NaT /\ a = b
DateGt(a, b) == a # NaT /\ b # NaT /\ a > b
DateGe(a, b) == a # NaT /\ b # NaT /\ a >= b

\* Series.max() / Series.min() of a date column: NaT when it is empty
DateMax(S) == IF S \ {NaT} = {} THEN NaT
              ELSE CHOOSE d \in S \ {NaT} : \A e \in S \ {NaT} : e <= d
DateMin(S) == IF S \ {NaT} = {} THEN NaT
              ELSE CHOOSE d \in S \ {NaT} : \A e \in S \ {NaT} : d <= e

\* timestamp - pd.DateOffset(years=1)
MinusOneYear(d) == IF d = NaT THEN NaT ELSE d - 10000

DaysIn(m) == IF m \in {4, 6, 9, 11} THEN 30 ELSE IF m = 2 THEN 29 ELSE 31

\* pd.to_datetime(s, errors='coerce') on a YYYY-MM-DD string; NaT otherwise
ToDatetime(s) ==
    IF /\ Len(s) = 10
       /\ s[5] = "-" /\ s[8] = "-"
       /\ \A i \in {1, 2, 3, 4, 6, 7, 9, 10} : IsDigit(s[i])
    THEN LET y == DecVal(SubSeq(s, 1, 4))
             m == DecVal(SubSeq(s, 6, 7))
             d == DecVal(SubSeq(s, 9, 10))
         IN  IF m \in 1..12 /\ d \in 1..DaysIn(m) THEN Date(y, m, d) ELSE NaT
    ELSE NaT

Digit(n) == CHOOSE c \in {"0", "1", "2", "3", "4", "5", "6", "7", "8", "9"} :
                DigitVal(c) = n

\* np.datetime_as_string(period, unit='D')
DatetimeAsString(d) ==
    LET y == YearOf(d)
        m == MonthOf(d)
        dd == DayOf(d)
    IN  << Digit(y \div 1000), Digit((y \div 100) % 10), Digit((y \div 10) % 10),
           Digit(y % 10), "-", Digit(m \div 10), Digit(m % 10), "-",
           Digit(dd \div 10), Digit(dd % 10) >>

----------------------------------------------------------------------------
(* Floats *)

NaN == <<0, 0>>
Num(n) == <<n, 1>>

Abs(n) == IF n < 0 THEN -n ELSE n
Sgn(n) == IF n < 0 THEN -1 ELSE IF n > 0 THEN 1 ELSE 0

RECURSIVE Gcd(_, _)
Gcd(a, b) == IF b = 0 THEN a ELSE Gcd(b, a % b)

\* the fraction n/d in lowest terms, d >= 0
Frac(n, d) ==
    IF d = 0 THEN <<Sgn(n), 0>>
    ELSE LET g == Gcd(Abs(n), Abs(d))
         IN  <<(Sgn(d) * n) \div g, Abs(d) \div g>>

IsNaN(x) == x = NaN
IsInf(x) == x[2] = 0 /\ x[1] # 0
FNeg(x) == <<-x[1], x[2]>>

FAdd(x, y) ==
    IF IsNaN(x) \/ IsNaN(y) THEN NaN
    ELSE IF IsInf(x) /\ IsInf(y) THEN (IF x = y THEN x ELSE NaN)
    ELSE IF IsInf(x) THEN x
    ELSE IF IsInf(y) THEN y
    ELSE Frac(x[1] * y[2] + y[1] * x[2], x[2] * y[2])

FSub(x, y) == FAdd(x, FNeg(y))

FMul(x, y) ==
    IF IsNaN(x) \/ IsNaN(y) THEN NaN
    ELSE IF IsInf(x) \/ IsInf(y) THEN <<Sgn(x[1]) * Sgn(y[1]), 0>>
    ELSE Frac(x[1] * y[1], x[2] * y[2])

\* IEEE division: x/0 is an infinity, 0/0 and inf/inf are NaN; nothing raises
FDiv(x, y) ==
    IF IsNaN(x) \/ IsNaN(y) THEN NaN
    ELSE IF IsInf(x) THEN (IF IsInf(y) THEN NaN
                           ELSE <<x[1] * (IF y[1] < 0 THEN -1 ELSE 1), 0>>)
    ELSE IF IsInf(y) THEN Num(0)
    ELSE Frac(x[1] * y[2], x[2] * y[1])

\* x <= 0 on floats (False for NaN)
FLeqZero(x) == ~IsNaN(x) /\ x[1] <= 0

----------------------------------------------------------------------------
(* DataFrames *)

Range(s) == {s[i] : i \in DOMAIN s}

\* r sorts before s on the columns named: the comparison of sort_values
Less(r, s, by) ==
    CASE by = <<"account_code">> -> StrLess(r.account_code, s.account_code)
      [] by = <<"period_end">> -> r.period_end < s.period_end
      [] by = <<"period_end", "period_reference", "account_code">> ->
            \/ r.period_end < s.period_end
            \/ /\ r.period_end = s.period_end
               /\ \/ r.period_reference < s.period_reference
                  \/ /\ r.period_reference = s.period_reference
                     /\ StrLess(r.account_code, s.account_code)

\* DataFrame.sort_values(by): the rows in ascending order of their keys, rows
\* with equal keys in the order they had. A sort by several columns is
\* pandas' stable lexsort; a sort by one column is numpy's quicksort, which
\* on the frames of this model (never more than 16 rows) is its insertion
\* sort and leaves equal keys in place.
StableSort(df, by) ==
    LET n == Len(df)
        pos(i) == 1 + Cardinality({j \in 1..n :
                          \/ Less(df[j], df[i], by)
                          \/ (~Less(df[i], df[j], by) /\ j < i)})
    IN  [k \in 1..n |-> df[CHOOSE i \in 1..n : pos(i) = k]]

\* r and s agree on the columns named; financial_year is the year of
\* period_end
SameOn(r, s, subset) ==
    \A c \in subset :
        IF c = "financial_year" THEN r.period_end \div 10000 = s.period_end \div 10000
        ELSE r[c] = s[c]

\* DataFrame.drop_duplicates(subset, keep): of the rows that agree on subset,
\* the last (keep = "last") or the first (keep = "first")
DropDuplicates(df, subset, keep) ==
    LET others(i) == IF keep = "last" THEN (i + 1)..Len(df) ELSE 1..(i - 1)
        kept == SelectSeq([i \in DOMAIN df |-> i],
                          LAMBDA i : \A j \in others(i) : ~SameOn(df[i], df[j], subset))
    IN  [k \in DOMAIN kept |-> df[kept[k]]]

\* a query made on the table itself (inplace=True)
Queried_InPlace(table, selected) == selected

\* table.query(expression).copy(): the table as the statement leaves it. The
\* rows selected go to a new frame, and what the caller then does in place
\* (a column assigned, query(inplace=True), sort_values(inplace=True)) is
\* done to that frame.
Queried(table, selected) == table

\* the values as they come, repeated ones included
Unique_WithRepeats(s) == s

\* Series.unique(): the distinct values in order of first appearance
RECURSIVE Unique(_)
Unique(s) ==
    IF s = <<>> THEN <<>>
    ELSE LET front == Unique(SubSeq(s, 1, Len(s) - 1))
             x == s[Len(s)]
         IN  IF x \in Range(front) THEN front ELSE Append(front, x)

\* list.sort() of distinct dates
SortDates(s) ==
    LET S == Range(s)
        RECURSIVE asc(_)
        asc(T) == IF T = {} THEN <<>>
                  ELSE LET m == CHOOSE d \in T : \A e \in T : d <= e
                       IN  <<m>> \o asc(T \ {m})
    IN  asc(S)

RECURSIVE Flatten(_)
Flatten(ss) == IF ss = <<>> THEN <<>> ELSE ss[1] \o Flatten(Tail(ss))

----------------------------------------------------------------------------
(* Accounting facts: the rows of DATASET *)

\* One row of a filing. A filing made for period_reference carries the rows
\* of its own period (period_order 0) and of the period one year before
\* (period_order -1); a period that ends on 31 December is an annual
\* report's, any other a quarterly report's; flows run from 1 January.
MkFact(cvm, rtype, code, pend, ver, name, pord, basis, pbeg, amount) ==
    [ corp_name |-> IF cvm = "cvm1" THEN "CORP ONE" ELSE "CORP TWO",
      corp_cvm_id |-> cvm,
      corp_fiscal_id |-> IF cvm = "cvm1" THEN "fiscal1" ELSE "fiscal2",
      report_type |-> rtype,
      report_version |-> ver,
      period_reference |-> IF pord = 0 THEN pend ELSE pend + 10000,
      period_begin |-> pbeg,
      period_end |-> pend,
      period_order |-> pord,
      account_code |-> code,
      account_name |-> name,
      accounting_basis |-> basis,
      account_fixed |-> (name = "Name A"),
      account_value |-> Num(amount) ]

YearStart(pend) == Date(YearOf(pend), 1, 1)

\* the amount filed: 500 for 2020, 100 more per year, 50 more at mid-year,
\* 20 more in the second version
AmountOf(pend, ver) ==
    500 + 100 * (YearOf(pend) - 2020) + (IF MonthOf(pend) = 6 THEN 50 ELSE 0)
        + 20 * (ver - 1)

BalanceFact(code, pend, ver, name, pord, basis) ==
    MkFact("cvm1", IF MonthOf(pend) = 12 THEN "annual" ELSE "quarterly",
           code, pend, ver, name, pord, basis,
           YearStart(pend), AmountOf(pend, ver))

AssetCodes == {Str("1"), Str("1.10"), Str("1.2"), Str("1.01.01.01"), Str("1.2.3.4")}
PeriodOrders == {-1, 0}

\* the rows a company may have filed for its assets: account "1" in every
\* period, version, name and period order; every other account in the 2021
\* annual report, for 2021 and for the year before; one row on the other
\* accounting basis
AssetFacts ==
    {BalanceFact(Str("1"), e, v, n, o, "consolidated") :
        e \in {Date(2020, 12, 31), Date(2021, 6, 30), Date(2021, 12, 31),
               Date(2022, 6, 30)},
        v \in {1, 2}, n \in {"Name A", "Name B"}, o \in PeriodOrders}
    \cup {BalanceFact(c, Date(2021, 12, 31), 1, "Name A", 0, "consolidated") :
            c \in AssetCodes}
    \cup {BalanceFact(c, Date(2020, 12, 31), 1, "Name A", -1, "consolidated") :
            c \in AssetCodes}
    \cup {BalanceFact(Str("1"), Date(2021, 12, 31), 1, "Name A", 0, "separate")}

\* the rows of another company, always in DATASET
OtherCorpFacts ==
    << MkFact("cvm2", "annual", Str("1"), Date(2021, 12, 31), 1, "Name A", 0,
              "consolidated", Date(2021, 1, 1), 900) >>

\* the tables of 1..n rows over a set of facts, no row twice
RECURSIVE TablesOver(_, _)
TablesOver(F, n) ==
    IF n = 0 THEN {<<>>}
    ELSE LET shorter == TablesOver(F, n - 1)
         IN  shorter \cup
             {Append(t, f) : t \in {u \in shorter : Len(u) = n - 1}, f \in F}

\* the datasets whose first company has 1..n rows of F
Datasets(F, n) ==
    {t \o OtherCorpFacts :
        t \in {u \in TablesOver(F, n) :
                  /\ u # <<>>
                  /\ \A i, j \in DOMAIN u : i # j => u[i] # u[j]}}

Column(df, f) == [i \in DOMAIN df |-> df[i][f]]

----------------------------------------------------------------------------
(* class Corporation *)

NoObject == [class |-> "none"]

\* CORP_IDS, FISCAL_IDS: computed from DATASET when the class is defined
CORP_IDS(ds) == Range(Column(ds, "corp_cvm_id"))
FISCAL_IDS(ds) == Range(Column(ds, "corp_fiscal_id"))

\* no row at all
AnnualRows_None(df) == <<>>
AnnualRows(df) == SelectSeq(df, LAMBDA r : r.report_type = "annual")
QuarterlyRows(df) == SelectSeq(df, LAMBDA r : r.report_type = "quarterly")

\* Corporation._set_main_data: the object's attributes after it
SetMainData(ds, obj) ==
    LET df == StableSort(SelectSeq(ds, LAMBDA r : r.corp_cvm_id = obj.corp_cvm_id),
                         <<"account_code">>)
    IN  [obj EXCEPT
            !.CORP_DF = df,
            !.CORP_NAME = df[1].corp_name,
            !.FIRST_ANNUAL = DateMin(Range(Column(AnnualRows(df), "period_end"))),
            !.LAST_ANNUAL = DateMax(Range(Column(AnnualRows(df), "period_end"))),
            !.LAST_QUARTERLY =
                DateMax(Range(Column(QuarterlyRows(df), "period_end")))]

\* a Corporation object before __init__ has set anything
BlankCorporation ==
    [ class |-> "Corporation", identity |-> "unset", corp_cvm_id |-> "unset",
      corp_fiscal_id |-> "unset", CORP_DF |-> <<>>, CORP_NAME |-> "unset",
      FIRST_ANNUAL |-> NaT, LAST_ANNUAL |-> NaT, LAST_QUARTERLY |-> NaT ]

\* the identity setter: the object after obj.identity = value, and what the
\* assignment raised
SetIdentity(ds, obj, value) ==
    LET o1 == [obj EXCEPT !.identity = value]
    IN  IF value \in CORP_IDS(ds) THEN
            LET df == SelectSeq(ds, LAMBDA r : r.corp_cvm_id = value)
                o2 == [o1 EXCEPT !.corp_cvm_id = value,
                                 !.corp_fiscal_id = df[1].corp_fiscal_id]
            IN  [obj |-> SetMainData(ds, o2), raised |-> "none"]
        ELSE IF value \in FISCAL_IDS(ds) THEN
            LET df == SelectSeq(ds, LAMBDA r : r.corp_fiscal_id = value)
                o2 == [o1 EXCEPT !.corp_fiscal_id = value,
                                 !.corp_cvm_id = df[1].corp_cvm_id]
            IN  [obj |-> SetMainData(ds, o2), raised |-> "none"]
        ELSE [obj |-> o1, raised |-> "ValueError"]

\* Corporation(identity), for an identity the dataset holds
NewCorporation(ds, identity) == SetIdentity(ds, BlankCorporation, identity).obj

----------------------------------------------------------------------------
(* Corporation._calculate_ltm and Finance.calculate_ltm *)

\* groupby(by='account_code').sum(): one (code, sum) per code
SumByCode(df) ==
    LET RECURSIVE total(_)
        total(rows) == IF rows = <<>> THEN Num(0)
                       ELSE FAdd(rows[1].account_value, total(Tail(rows)))
    IN  [c \in Range(Column(df, "account_code")) |->
            total(SelectSeq(df, LAMBDA r : r.account_code = c))]

\* df.query('period_begin == period_begin.min()')
EarliestBegin(df) ==
    LET first == DateMin(Range(Column(df, "period_begin")))
    IN  SelectSeq(df, LAMBDA r : DateEq(r.period_begin, first))

\* the comparative rows taken with their sign as filed
Negated_Skipped(df) == df

\* df2['account_value'] = -df2['account_value']
Negated(df) == [i \in DOMAIN df |-> [df[i] EXCEPT !.account_value = FNeg(@)]]

\* every row of the input and nothing else
CalculateLtm_AllRows(df_flow, last_annual, last_quarterly, tag) == df_flow

\* The body the two classes share. last_annual and last_quarterly are the
\* object's attributes in Corporation and are computed from df_flow in
\* Finance; tag is the report_type the reconstructed rows get.
CalculateLtm(df_flow, last_annual, last_quarterly, tag) ==
    IF DateGt(last_annual, last_quarterly) THEN AnnualRows(df_flow)
    ELSE
        LET df1 == EarliestBegin(
                       SelectSeq(df_flow,
                           LAMBDA r : DateEq(r.period_end, last_quarterly)))
            df2 == Negated(EarliestBegin(
                       SelectSeq(df_flow,
                             LAMBDA r : DateEq(r.period_reference, last_quarterly))))
            df3 == SelectSeq(df_flow, LAMBDA r : DateEq(r.period_end, last_annual))
            sums == SumByCode(df1 \o df2 \o df3)
            df_ltm == [i \in DOMAIN df1 |->
                          [df1[i] EXCEPT
                              !.account_value = sums[df1[i].account_code],
                              !.report_type = tag,
                              !.period_begin = MinusOneYear(last_quarterly)]]
        IN  AnnualRows(df_flow) \o df_ltm

\* Corporation._calculate_ltm(df_flow)
CorpCalculateLtm(obj, df_flow) ==
    CalculateLtm(df_flow, obj.LAST_ANNUAL, obj.LAST_QUARTERLY, "quarterly")

\* Finance.calculate_ltm(df_flow)
FinCalculateLtm(df_flow) ==
    CalculateLtm(df_flow,
                 DateMax(Range(Column(AnnualRows(df_flow), "period_end"))),
                 DateMax(Range(Column(QuarterlyRows(df_flow), "period_end"))),
                 "ltm")

----------------------------------------------------------------------------
(* Corporation._make_report *)

\* a report: the period columns' labels and the rows, each row with its
\* account and one cell per column
EmptyRow(r) ==
    [ account_name |-> r.account_name, account_code |-> r.account_code,
      account_fixed |-> r.account_fixed, cells |-> <<>> ]

WithCell(row, v) == [row EXCEPT !.cells = Append(@, v)]

\* base_columns: the columns of a report before its periods; Finance merges
\* on them (they are what the two frames share), Corporation on account_code
BaseColumns == {"account_name", "account_code", "account_fixed"}

\* pd.merge(df_report, df_year, how='left', on=...): every row of df_report
\* once per matching row of df_year, or once with NaN when none matches
MergeLeft(rows, df_year, on) ==
    Flatten([i \in DOMAIN rows |->
        LET m == SelectSeq(df_year, LAMBDA r : SameOn(rows[i], r, on))
        IN  IF m = <<>> THEN <<WithCell(rows[i], NaN)>>
            ELSE [j \in DOMAIN m |-> WithCell(rows[i], m[j].account_value)]])

\* "for period in periods": one merge per period, in the order of periods
RECURSIVE MergePeriods(_, _, _, _)
MergePeriods(rows, df, periods, on) ==
    IF periods = <<>> THEN rows
    ELSE MergePeriods(
             MergeLeft(rows, SelectSeq(df, LAMBDA r : DateEq(r.period_end, periods[1])),
                       on),
             df, Tail(periods), on)

\* the rows _make_report keeps of df: "keep only last quarterly fs"
CorpKeptRows(obj, df) ==
    IF DateGt(obj.LAST_ANNUAL, obj.LAST_QUARTERLY) THEN
        SelectSeq(AnnualRows(df),
              LAMBDA r : r.period_order = -1
                         \/ DateEq(r.period_end, obj.LAST_ANNUAL))
    ELSE
        SelectSeq(SelectSeq(df, LAMBDA r : r.report_type = "annual"
                                   \/ DateEq(r.period_end, obj.LAST_QUARTERLY)),
              LAMBDA r : r.period_order = -1
                         \/ DateEq(r.period_end, obj.LAST_QUARTERLY)
                         \/ DateEq(r.period_end, obj.LAST_ANNUAL))

\* _make_report without its final sort
SortReportRows_Skipped(rows) == rows

\* the final df_report.sort_values('account_code')
SortReportRows(rows) == StableSort(rows, <<"account_code">>)

\* the index of the report: df_report.drop_duplicates(subset='account_code',
\* keep='last')
CorpReportIndex(df) ==
    DropDuplicates([i \in DOMAIN df |-> EmptyRow(df[i])], {"account_code"}, "last")

\* the report _make_report(df) returns
CorpMakeReport(obj, df) ==
    LET sorted == StableSort(CorpKeptRows(obj, df), <<"period_end">>)
        periods == SortDates(Unique(Column(sorted, "period_end")))
        merged == MergePeriods(CorpReportIndex(sorted), sorted, periods, {"account_code"})
    IN  [ columns |->
            [i \in DOMAIN periods |->
                IF DateEq(periods[i], obj.LAST_QUARTERLY)
                THEN DatetimeAsString(periods[i]) \o Str(" (ltm)")
                ELSE DatetimeAsString(periods[i])],
          rows |-> SortReportRows(merged) ]

----------------------------------------------------------------------------
(* Corporation.report *)

NoLevel == <<>>
Level(n) == <<n>>

REPORT_TYPES == {"assets", "liabilities_and_equity", "liabilities", "equity",
                 "income", "cash_flow", "earnings_per_share"}

\* the dictionary report_types of report()
AccountPrefixes(report_type) ==
    CASE report_type = "assets" -> {Str("1")}
      [] report_type = "liabilities_and_equity" -> {Str("2")}
      [] report_type = "liabilities" -> {Str("2.01"), Str("2.02")}
      [] report_type = "equity" -> {Str("2.03")}
      [] report_type = "income" -> {Str("3")}
      [] report_type = "cash_flow" -> {Str("6")}
      [] report_type = "earnings_per_share" ->
            {Str("3.99.01.01"), Str("3.99.02.01")}

\* every account divided by the unit
Scaled_EveryAccount(df, unit) ==
    [i \in DOMAIN df |-> [df[i] EXCEPT !.account_value = FDiv(@, unit)]]

\* "Change unit only for accounts different from 3.99"
Scaled(df, unit) ==
    [i \in DOMAIN df |->
        IF StartsWith(df[i].account_code, Str("3.99")) THEN df[i]
        ELSE [df[i] EXCEPT !.account_value = FDiv(@, unit)]]

\* the limit of Finance (show_accounts * 3 + 1) used with Corporation's levels
AccountCodeLimit_OneLevelMore(account_level) == account_level * 3 + 1

\* account_code_limit = account_level * 3 - 2
AccountCodeLimit(account_level) == account_level * 3 - 2

\* "Filter dataframe for selected account_level"
LevelFiltered(df, account_level) ==
    IF account_level = NoLevel THEN df
    ELSE SelectSeq(df, LAMBDA r :
                 Len(r.account_code) <= AccountCodeLimit(account_level[1]))

\* report() without its filter of the report type
TypeFiltered_Skipped(df, report_type) == df

\* "Filter dataframe for selected report_type"
TypeFiltered(df, report_type) ==
    SelectSeq(df, LAMBDA r :
            \E p \in AccountPrefixes(report_type) : StartsWith(r.account_code, p))

\* "Check input arguments": the exception the checks raise, "none" if none.
\* NaT == NaT is False, as every comparison with NaT.
FirstPeriodRejected(first_period) == DateEq(first_period, NaT)

BasisRejected(accounting_basis) == accounting_basis \notin {"consolidated", "separate"}

\* a check that lets unit 0 through
UnitRejected_NegativeOnly(unit) == unit[1] < 0 /\ unit[2] > 0

UnitRejected(unit) == FLeqZero(unit)

LevelRejected(account_level) ==
    account_level \notin {NoLevel, Level(2), Level(3), Level(4)}

Raised(exc, done) == [kind |-> "raise", exc |-> exc, done |-> done]
Returned(report, done) == [kind |-> "return", report |-> report, done |-> done]

\* the frame report() has when it reaches _calculate_ltm and _make_report:
\* the company's rows of the basis and periods asked for, scaled, cut to the
\* level and to the accounts of the report type
CorpSelected(obj, a) ==
    LET first_period == ToDatetime(a.first_period)
        df == SelectSeq(obj.CORP_DF,
                    LAMBDA r : r.accounting_basis = a.accounting_basis
                               /\ DateGe(r.period_end, first_period))
    IN  TypeFiltered(LevelFiltered(Scaled(df, a.unit), a.account_level),
                     a.report_type)

\* report(report_type, accounting_basis, unit, account_level, first_period):
\* the outcome of the call. "done" lists the steps that worked on the facts
\* before the call returned or raised.
CorpReport(obj, a) ==
    IF FirstPeriodRejected(ToDatetime(a.first_period))
    THEN Raised("ValueError", <<>>)
    ELSE IF BasisRejected(a.accounting_basis) THEN Raised("ValueError", <<>>)
    ELSE IF UnitRejected(a.unit) THEN Raised("ValueError", <<>>)
    ELSE IF LevelRejected(a.account_level) THEN Raised("ValueError", <<>>)
    ELSE IF a.report_type \notin REPORT_TYPES
    THEN Raised("KeyError", <<"query", "scale", "level">>)
    ELSE
        LET df == CorpSelected(obj, a)
            flow == a.report_type \in {"income", "cash_flow"}
            done == <<"query", "scale", "level", "type">>
                      \o (IF flow THEN <<"ltm">> ELSE <<>>)
                      \o <<"make_report">>
        IN  Returned(CorpMakeReport(obj, IF flow THEN CorpCalculateLtm(obj, df)
                                         ELSE df),
                     done)

\* the object after report(**a): the checks assign nothing, and what follows
\* them works on self._CORP_DF.query(expression).copy()
CorpAfterReport(obj, a) ==
    IF CorpReport(obj, a).done = <<>> THEN obj
    ELSE [obj EXCEPT !.CORP_DF =
             Queried(obj.CORP_DF,
                 SelectSeq(obj.CORP_DF,
                     LAMBDA r : /\ r.accounting_basis = a.accounting_basis
                                /\ DateGe(r.period_end,
                                          ToDatetime(a.first_period))))]

----------------------------------------------------------------------------
(* Calls of report() *)

\* the default values of report()'s parameters
DefaultArgs(report_type) ==
    [ report_type |-> report_type, accounting_basis |-> "consolidated",
      unit |-> Num(1), account_level |-> NoLevel,
      first_period |-> Str("2009-01-01") ]

Deviations(a, d) ==
    Cardinality({f \in DOMAIN a : a[f] # d[f]})

\* the argument records of the calls made: those that differ from the
\* defaults (report_type has none: the caller's own) in at most MaxDev places
ReportArgs(report_type) ==
    {a \in [ report_type : {"assets", "income", "balance", report_type},
             accounting_basis : {"consolidated", "separate", "combined"},
             unit : {Num(1), Num(2), Num(0)},
             account_level : {NoLevel, Level(2), Level(3), Level(4), Level(5)},
             first_period : {Str("2009-01-01"), Str("2021-01-01"), Str("xx")} ] :
        Deviations(a, DefaultArgs(report_type)) <= MaxDev}

NoCall == [op |-> "none"]
NoReturn == [kind |-> "none"]

AssetsReportArgs == ReportArgs("assets")

\* corp.report(**a)
CorpReportCall(Args) ==
    /\ corp # NoObject
    /\ \E a \in Args :
         /\ call' = [op |-> "report", args |-> a]
         /\ ret' = CorpReport(corp, a)
         /\ corp' = CorpAfterReport(corp, a)
    /\ ncalls' = ncalls + 1
    /\ UNCHANGED <<DATASET, fin, fldb>>

----------------------------------------------------------------------------
(* Reports of assets by a Corporation object *)

Init ==
    /\ DATASET \in Datasets(AssetFacts, MaxFacts)
    /\ corp = NewCorporation(DATASET, "cvm1")
    /\ fin = NoObject
    /\ call = NoCall
    /\ ret = NoReturn
    /\ ncalls = 0
    /\ fldb = NoObject

Next == ncalls < MaxCalls /\ CorpReportCall(AssetsReportArgs)

Spec == Init /\ [][Next]_vars

----------------------------------------------------------------------------
(* class Finance *)

\* Finance reads the same table as Corporation; its columns cvm_id,
\* fiscal_id, company_name and account_basis are the fields corp_cvm_id,
\* corp_fiscal_id, corp_name and accounting_basis of the rows here.
CVM_IDS(ds) == Range(Column(ds, "corp_cvm_id"))

BlankFinance ==
    [ class |-> "Finance", corporation_id |-> "unset", cvm_id |-> "unset",
      fiscal_id |-> "unset", report_type |-> "unset", min_end_period |-> NaT,
      max_end_period |-> NaT, unit |-> NaN, account_mode |-> -1,
      MAIN_DF |-> <<>> ]

\* the corporation_id setter: the attribute is assigned before the value is
\* looked up, and MAIN_DF is left as it is
SetCorporationId(ds, obj, value) ==
    LET o1 == [obj EXCEPT !.corporation_id = value]
    IN  IF value \in CVM_IDS(ds) THEN
            LET df == SelectSeq(ds, LAMBDA r : r.corp_cvm_id = value)
            IN  [obj |-> [o1 EXCEPT !.cvm_id = value,
                                    !.fiscal_id = df[1].corp_fiscal_id],
                 raised |-> "none"]
        ELSE IF value \in FISCAL_IDS(ds) THEN
            LET df == SelectSeq(ds, LAMBDA r : r.corp_fiscal_id = value)
            IN  [obj |-> [o1 EXCEPT !.fiscal_id = value,
                                    !.cvm_id = df[1].corp_cvm_id],
                 raised |-> "none"]
        ELSE [obj |-> o1, raised |-> "ValueError"]

\* the account_basis setter
SetAccountBasis(obj, value) ==
    IF value \in {"consolidated", "separate"}
    THEN [obj |-> [obj EXCEPT !.report_type = value], raised |-> "none"]
    ELSE [obj |-> obj, raised |-> "ValueError"]

\* the first_period setter: the fallback to 2009-12-31 is behind
\* "value == pd.NaT", which is False for every value
SetFirstPeriod(obj, value) ==
    LET v == ToDatetime(value)
    IN  IF DateEq(v, NaT)
        THEN [obj EXCEPT !.min_end_period = ToDatetime(Str("2009-12-31"))]
        ELSE [obj EXCEPT !.min_end_period = v]

\* the last_period setter
SetLastPeriod(obj, value) ==
    LET v == ToDatetime(value)
    IN  IF DateEq(v, NaT)
        THEN [obj EXCEPT !.max_end_period = ToDatetime(Str("2200-12-31"))]
        ELSE [obj EXCEPT !.max_end_period = v]

\* the show_accounts setter
SetShowAccounts(obj, value) ==
    IF value \in {0, 1, 2, 3}
    THEN [obj |-> [obj EXCEPT !.account_mode = value], raised |-> "none"]
    ELSE [obj |-> obj, raised |-> "ValueError"]

\* the unit setter
SetUnit(obj, value) ==
    IF ~IsNaN(value) /\ value[1] > 0
    THEN [obj |-> [obj EXCEPT !.unit = value], raised |-> "none"]
    ELSE [obj |-> obj, raised |-> "ValueError"]

\* Finance._set_main_df
SetMainDf(ds, obj) ==
    [obj EXCEPT !.MAIN_DF =
        StableSort(SelectSeq(ds, LAMBDA r : r.corp_cvm_id = obj.cvm_id),
                   <<"account_code">>)]

\* Finance(corporation_id, account_basis, first_period, last_period,
\* show_accounts, unit): the object built, and what __init__ raised
NewFinance(ds, a) ==
    LET s1 == SetCorporationId(ds, BlankFinance, a.corporation_id)
        s2 == SetAccountBasis(s1.obj, a.account_basis)
        o4 == SetLastPeriod(SetFirstPeriod(s2.obj, a.first_period), a.last_period)
        s5 == SetUnit(o4, a.unit)
        s6 == SetShowAccounts(s5.obj, a.show_accounts)
    IN  IF s1.raised # "none" THEN [obj |-> NoObject, raised |-> s1.raised]
        ELSE IF s2.raised # "none" THEN [obj |-> NoObject, raised |-> s2.raised]
        ELSE IF s5.raised # "none" THEN [obj |-> NoObject, raised |-> s5.raised]
        ELSE IF s6.raised # "none" THEN [obj |-> NoObject, raised |-> s6.raised]
        ELSE [obj |-> SetMainDf(ds, s6.obj), raised |-> "none"]

\* account_code_limit = show_accounts * 3 + 1
FinAccountCodeLimit(show_accounts) == show_accounts * 3 + 1

\* the object after _get_company_df(), which works on
\* self._MAIN_DF.query(expression).copy()
FinAfterGetCompanyDf(obj) ==
    [obj EXCEPT !.MAIN_DF =
        Queried(obj.MAIN_DF,
            SelectSeq(obj.MAIN_DF,
                LAMBDA r : /\ r.accounting_basis = obj.report_type
                           /\ DateGe(r.period_end, obj.min_end_period)
                           /\ DateGe(obj.max_end_period, r.period_end)))]

\* Finance._get_company_df
GetCompanyDf(obj) ==
    LET df == SelectSeq(obj.MAIN_DF,
                    LAMBDA r : /\ r.accounting_basis = obj.report_type
                               /\ DateGe(r.period_end, obj.min_end_period)
                               /\ DateGe(obj.max_end_period, r.period_end))
        scaled == Scaled(df, obj.unit)
    IN  IF obj.account_mode > 0
        THEN SelectSeq(scaled, LAMBDA r : Len(r.account_code)
                                          <= FinAccountCodeLimit(obj.account_mode))
        ELSE scaled

\* the rows Finance._make_report keeps of df: "keep only last quarterly fs",
\* then "only last published statements will be used"
FinKeptPeriods(df) ==
    LET last_end_period == DateMax(Range(Column(df, "period_end")))
    IN  SelectSeq(df, LAMBDA r : r.report_type = "annual"
                                 \/ DateEq(r.period_end, last_end_period))

FinKeptRows(df) ==
    DropDuplicates(
        StableSort(FinKeptPeriods(df),
                   <<"period_end", "period_reference", "account_code">>),
        {"financial_year", "account_code"}, "last")

\* Finance._make_report(df)
FinMakeReport(df) ==
    LET kept == FinKeptRows(df)
        index == DropDuplicates([i \in DOMAIN kept |-> EmptyRow(kept[i])],
                                BaseColumns, "first")
        periods == Unique(Column(kept, "period_end"))
        merged == MergePeriods(index, kept, periods, BaseColumns)
    IN  [ columns |-> [i \in DOMAIN periods |-> DatetimeAsString(periods[i])],
          rows |-> StableSort(merged, <<"account_code">>) ]

\* df.query('account_code.str.startswith("...")') on _get_company_df()
FinSelected(obj, prefix) ==
    SelectSeq(GetCompanyDf(obj), LAMBDA r : StartsWith(r.account_code, prefix))

\* the property assets
FinAssets(obj) == FinMakeReport(FinSelected(obj, Str("1")))

\* the property liabilities_and_equity
FinLiabilitiesAndEquity(obj) == FinMakeReport(FinSelected(obj, Str("2")))

\* the property income
FinIncome(obj) == FinMakeReport(FinCalculateLtm(FinSelected(obj, Str("3"))))

----------------------------------------------------------------------------
(* class Company (brfin) *)

\* pd.to_numeric(s) of a string of digits with at most one point: its value,
\* NaN for the empty string and for a missing value, ValueError for any
\* other string of these characters and letters. (Signs, exponents and
\* blanks, which pandas reads as well, are in no code of the tables here.)
ToNumeric(s) ==
    LET points == {i \in DOMAIN s : s[i] = "."}
        digits == SelectSeq(s, IsDigit)
    IN  IF s = <<>> THEN [raised |-> "none", value |-> NaN]
        ELSE IF /\ \A i \in DOMAIN s : IsDigit(s[i]) \/ s[i] = "."
                /\ Cardinality(points) <= 1
                /\ digits # <<>>
        THEN LET decimals == IF points = {} THEN 0
                             ELSE Len(s) - (CHOOSE i \in points : TRUE)
                 RECURSIVE pow10(_)
                 pow10(n) == IF n = 0 THEN 1 ELSE 10 * pow10(n - 1)
             IN  [raised |-> "none",
                  value |-> Frac(DecVal(digits), pow10(decimals))]
        ELSE [raised |-> "ValueError", value |-> NaN]

\* Company(cvm_number, start_period, fs_type): _set_df_main, then
\* _set_ac_levels on the rows it kept. CD_CVM, fs_type, DT_FIM_EXERC and
\* CD_CONTA are the fields corp_cvm_id, accounting_basis, period_end and
\* account_code of the rows here. str[0] of an empty string is missing,
\* str[2:4] of a short one is what there is of it.
NewCompany(ds, cvm_number, start_period, fs_type) ==
    LET df_main ==
            SelectSeq(ds, LAMBDA r :
                /\ r.corp_cvm_id = cvm_number
                /\ r.accounting_basis = fs_type
                /\ DateGe(r.period_end, ToDatetime(start_period)))
        l1(r) == ToNumeric(SubSeq(r.account_code, 1,
                                  IF Len(r.account_code) < 1 THEN 0 ELSE 1))
        l2(r) == ToNumeric(SubSeq(r.account_code, 3,
                                  IF Len(r.account_code) < 4
                                  THEN Len(r.account_code) ELSE 4))
    IN  IF \E i \in DOMAIN df_main :
               l1(df_main[i]).raised # "none" \/ l2(df_main[i]).raised # "none"
        THEN Raised("ValueError", <<>>)
        ELSE [ kind |-> "return",
               cvm_number |-> cvm_number, fs_type |-> fs_type,
               start_period |-> start_period,
               df_main |-> [i \in DOMAIN df_main |->
                               [ ac_l1 |-> l1(df_main[i]).value,
                                 ac_l2 |-> l2(df_main[i]).value ]
                                   @@ df_main[i]] ]

\* the rows that keep annual rows and every period but the latest
CompanyKeptRows_OlderQuarters(df) ==
    LET last == DateMax(Range(Column(df, "period_end")))
    IN  SelectSeq(df, LAMBDA r : r.report_type = "annual"
                                 \/ ~DateEq(r.period_end, last))

\* the rows Company._make_bs keeps of df: "keep only last qfc", then "only
\* the last published statements will be used". is_annual is report_type =
\* "annual", DT_REFER is period_reference.
CompanyKeptRows(df) ==
    LET last_qfs_period ==
            DateMax(Range(Column(
                SelectSeq(df, LAMBDA r : r.report_type # "annual"),
                "period_end")))
        kept == SelectSeq(df, LAMBDA r : r.report_type = "annual"
                                         \/ DateEq(r.period_end, last_qfs_period))
    IN  DropDuplicates(
            StableSort(kept, <<"period_end", "period_reference", "account_code">>),
            {"financial_year", "account_code"}, "last")

\* the property assets of a Company: _make_bs of the rows with ac_l1 == 1
CompanyAssets(company) ==
    LET kept == CompanyKeptRows(
                    SelectSeq(company.df_main, LAMBDA r : r.ac_l1 = Num(1)))
        index == DropDuplicates([i \in DOMAIN kept |-> EmptyRow(kept[i])],
                                BaseColumns, "first")
        periods == Unique(Column(kept, "period_end"))
        merged == MergePeriods(index, kept, periods, BaseColumns)
    IN  [ columns |-> [i \in DOMAIN periods |-> DatetimeAsString(periods[i])],
          rows |-> StableSort(merged, <<"account_code">>) ]

\* Company("cvm1", fs_type=...).assets
CompanyAssetsRead ==
    /\ \E fs_type \in {"consolidated", "separate"} :
         LET company == NewCompany(DATASET, "cvm1", Str("2009-12-31"), fs_type)
         IN  /\ call' = [op |-> "company_assets", cvm_number |-> "cvm1",
                         start_period |-> Str("2009-12-31"),
                         fs_type |-> fs_type]
             /\ ret' = IF company.kind = "raise" THEN company
                       ELSE Returned(CompanyAssets(company), <<>>)
    /\ ncalls' = ncalls + 1
    /\ UNCHANGED <<DATASET, corp, fin, fldb>>

----------------------------------------------------------------------------
(* Reads of the assets of a Finance object and of a Company *)

FinDefaultArgs ==
    [ corporation_id |-> "cvm1", account_basis |-> "consolidated",
      first_period |-> Str("2009-12-31"), last_period |-> Str("2200-12-31"),
      show_accounts |-> 0, unit |-> Num(1) ]

\* the arguments a Finance object is built with: those __init__ accepts that
\* differ from the defaults in at most MaxDev places
FinanceArgs ==
    {a \in [ corporation_id : {"cvm1", "fiscal1"},
             account_basis : {"consolidated", "separate"},
             first_period : {Str("2009-12-31"), Str("2021-01-01"), Str("xx")},
             last_period : {Str("2200-12-31"), Str("2021-12-31"), Str("xx")},
             show_accounts : {0, 1, 2, 3}, unit : {Num(1), Num(2)} ] :
        Deviations(a, FinDefaultArgs) <= MaxDev}

\* fin.assets
FinAssetsRead ==
    /\ fin # NoObject
    /\ call' = [op |-> "assets"]
    /\ ret' = Returned(FinAssets(fin), <<>>)
    /\ fin' = FinAfterGetCompanyDf(fin)
    /\ ncalls' = ncalls + 1
    /\ UNCHANGED <<DATASET, corp, fldb>>

InitFin ==
    /\ DATASET \in Datasets(AssetFacts, MaxFacts)
    /\ corp = NoObject
    /\ \E a \in FinanceArgs : fin = NewFinance(DATASET, a).obj
    /\ call = NoCall
    /\ ret = NoReturn
    /\ ncalls = 0
    /\ fldb = NoObject

NextFin ==
    /\ ncalls < MaxCalls
    /\ \/ FinAssetsRead
       \/ CompanyAssetsRead

SpecFin == InitFin /\ [][NextFin]_vars

----------------------------------------------------------------------------
(* Calls of the LTM reconstruction *)

\* the first day of the quarter that ends on period_end
QuarterStart(pend) == Date(YearOf(pend), MonthOf(pend) - 2, 1)

\* the amount filed for an income account: 1000 for the year 2021, 450 and
\* 600 for the first halves of 2021 and 2022, 250 less for the last quarter
\* alone, ten times as much for account 3.01
FlowAmountOf(code, pend, pbeg) ==
    (IF code = Str("3.01") THEN 10 ELSE 1)
        * ((CASE pend = Date(2021, 6, 30) -> 450
              [] pend = Date(2021, 12, 31) -> 1000
              [] pend = Date(2022, 6, 30) -> 600)
           - (IF pbeg = YearStart(pend) THEN 0 ELSE 250))

FlowFact(code, rtype, pend, pord, pbeg) ==
    MkFact("cvm1", rtype, code, pend, 1, "Name A", pord, "consolidated", pbeg,
           FlowAmountOf(code, pend, pbeg))

\* the rows a company may have filed for its income accounts: for 3.11 the
\* year 2021, and the year to date and the last quarter alone for the
\* quarters ending 2021-06-30, 2021-12-31 and 2022-06-30, each as the period
\* of the filing or as its comparative; for 3.01 the year 2021, the first
\* half of 2022 and its comparative; and the assets at 2022-06-30
FlowFacts ==
    {FlowFact(Str("3.11"), "annual", Date(2021, 12, 31), o, Date(2021, 1, 1)) :
        o \in PeriodOrders}
    \cup {FlowFact(Str("3.11"), "quarterly", e, o,
                    IF ytd THEN YearStart(e) ELSE QuarterStart(e)) :
            e \in {Date(2021, 6, 30), Date(2021, 12, 31), Date(2022, 6, 30)},
            o \in PeriodOrders, ytd \in BOOLEAN}
    \cup {FlowFact(Str("3.01"), "annual", Date(2021, 12, 31), 0, Date(2021, 1, 1)),
          FlowFact(Str("3.01"), "quarterly", Date(2022, 6, 30), 0, Date(2022, 1, 1)),
          FlowFact(Str("3.01"), "quarterly", Date(2021, 6, 30), -1, Date(2021, 1, 1))}
    \cup {BalanceFact(Str("1"), Date(2022, 6, 30), 1, "Name A", 0, "consolidated")}

IncomeReportArgs == {DefaultArgs("income")}

\* corp._calculate_ltm(df_flow), as report('income') calls it
CorpCalculateLtmCall ==
    /\ corp # NoObject
    /\ LET df_flow == CorpSelected(corp, DefaultArgs("income"))
       IN  /\ call' = [op |-> "_calculate_ltm", df_flow |-> df_flow]
           /\ ret' = [kind |-> "return", df |-> CorpCalculateLtm(corp, df_flow)]
    /\ corp' = CorpAfterReport(corp, DefaultArgs("income"))
    /\ ncalls' = ncalls + 1
    /\ UNCHANGED <<DATASET, fin, fldb>>

\* Finance.calculate_ltm(df_flow), as the property income calls it
FinCalculateLtmCall ==
    /\ fin # NoObject
    /\ LET df_flow == FinSelected(fin, Str("3"))
       IN  /\ call' = [op |-> "calculate_ltm", df_flow |-> df_flow]
           /\ ret' = [kind |-> "return", df |-> FinCalculateLtm(df_flow)]
    /\ fin' = FinAfterGetCompanyDf(fin)
    /\ ncalls' = ncalls + 1
    /\ UNCHANGED <<DATASET, corp, fldb>>

\* fin.income
FinIncomeRead ==
    /\ fin # NoObject
    /\ call' = [op |-> "income"]
    /\ ret' = Returned(FinIncome(fin), <<>>)
    /\ fin' = FinAfterGetCompanyDf(fin)
    /\ ncalls' = ncalls + 1
    /\ UNCHANGED <<DATASET, corp, fldb>>

InitLtm ==
    /\ DATASET \in Datasets(FlowFacts, MaxFlowFacts)
    /\ corp = NewCorporation(DATASET, "cvm1")
    /\ fin = NewFinance(DATASET, FinDefaultArgs).obj
    /\ call = NoCall
    /\ ret = NoReturn
    /\ ncalls = 0
    /\ fldb = NoObject

NextLtm ==
    /\ ncalls < MaxCalls
    /\ \/ CorpCalculateLtmCall
       \/ FinCalculateLtmCall
       \/ CorpReportCall(IncomeReportArgs)
       \/ FinIncomeRead

SpecLtm == InitLtm /\ [][NextLtm]_vars

----------------------------------------------------------------------------
(* shift_right and operating_performance *)

\* shift_right(s, is_shifted): np.append(np.nan, s.iloc[:-1].values), or s
ShiftRight(s, is_shifted) ==
    IF is_shifted THEN <<NaN>> \o SubSeq(s, 1, Len(s) - 1) ELSE s

TAX_RATE == Frac(34, 100)

\* pd.concat(reports, ignore_index=True): the rows of the reports one after
\* the other, the columns of all of them in the order they first appear, NaN
\* where a report has no such column
Concat(reports) ==
    LET columns == Unique(Flatten([i \in DOMAIN reports |-> reports[i].columns]))
        widened(rep) ==
            [i \in DOMAIN rep.rows |->
                [rep.rows[i] EXCEPT !.cells =
                    [k \in DOMAIN columns |->
                        IF columns[k] \in Range(rep.columns)
                        THEN rep.rows[i].cells[
                                 CHOOSE l \in DOMAIN rep.columns :
                                     rep.columns[l] = columns[k]]
                        ELSE NaN]]]
    IN  [ columns |-> columns,
          rows |-> Flatten([i \in DOMAIN reports |-> widened(reports[i])]) ]

\* df.fillna(0)
FillNa(frame) ==
    [frame EXCEPT !.rows =
        [i \in DOMAIN frame.rows |->
            [frame.rows[i] EXCEPT !.cells =
                [k \in DOMAIN frame.rows[i].cells |->
                    IF IsNaN(frame.rows[i].cells[k]) THEN Num(0)
                    ELSE frame.rows[i].cells[k]]]]]

\* df.loc[code], for a code that labels one row of the frame
Loc(frame, code) ==
    frame.rows[CHOOSE i \in DOMAIN frame.rows :
                   frame.rows[i].account_code = code].cells

SAdd(s, t) == [k \in DOMAIN s |-> FAdd(s[k], t[k])]
SSub(s, t) == [k \in DOMAIN s |-> FSub(s[k], t[k])]
SDiv(s, t) == [k \in DOMAIN s |-> FDiv(s[k], t[k])]
SMul(s, x) == [k \in DOMAIN s |-> FMul(s[k], x)]

\* the accounts operating_performance looks up
PerformanceCodes ==
    {Str("3.01"), Str("3.03"), Str("3.05"), Str("3.11"), Str("1"),
     Str("2.03"), Str("2.01.04"), Str("2.02.01"), Str("1.01.01"),
     Str("1.01.02")}

\* "series with indicators" and the six indicators, on the frame df
Indicators(df, is_shifted) ==
    IF \E c \in PerformanceCodes :
           c \notin Range(Column(df.rows, "account_code"))
    THEN Raised("KeyError", <<>>)
    ELSE
        LET revenues == Loc(df, Str("3.01"))
            gross_profit == Loc(df, Str("3.03"))
            ebit == Loc(df, Str("3.05"))
            net_income == Loc(df, Str("3.11"))
            total_assets == ShiftRight(Loc(df, Str("1")), is_shifted)
            equity == ShiftRight(Loc(df, Str("2.03")), is_shifted)
            invested_capital ==
                ShiftRight(
                    SSub(SSub(SAdd(SAdd(Loc(df, Str("2.03")), Loc(df, Str("2.01.04"))),
                                   Loc(df, Str("2.02.01"))),
                              Loc(df, Str("1.01.01"))),
                         Loc(df, Str("1.01.02"))),
                    is_shifted)
            after_tax == SMul(ebit, FSub(Num(1), TAX_RATE))
        IN  [ kind |-> "return",
              columns |-> df.columns,
              return_on_assets |-> SDiv(after_tax, total_assets),
              return_on_capital |-> SDiv(after_tax, invested_capital),
              return_on_equity |-> SDiv(net_income, equity),
              gross_margin |-> SDiv(gross_profit, revenues),
              operating_margin |-> SDiv(after_tax, revenues),
              net_margin |-> SDiv(net_income, revenues) ]

\* the three reports operating_performance asks for
CorpPerformanceReports(obj) ==
    << CorpReport(obj, DefaultArgs("assets")).report,
       CorpReport(obj, DefaultArgs("liabilities_and_equity")).report,
       CorpReport(obj, DefaultArgs("income")).report >>

\* Corporation.operating_performance(is_shifted)
CorpOperatingPerformance(obj, is_shifted) ==
    Indicators(FillNa(Concat(CorpPerformanceReports(obj))), is_shifted)

\* the three properties Finance.operating_performance reads
FinPerformanceReports(obj) ==
    <<FinAssets(obj), FinLiabilitiesAndEquity(obj), FinIncome(obj)>>

\* Finance.operating_performance(is_on)
FinOperatingPerformance(obj, is_on) ==
    Indicators(Concat(FinPerformanceReports(obj)), is_on)

----------------------------------------------------------------------------
(* Calls of shift_right and operating_performance *)

\* the amount of an account in the annual report of 2021, for 2021 and for
\* the year before
PerformanceAmountOf(code, pend) ==
    (CASE code = Str("1") -> 1000
       [] code = Str("1.01.01") -> 50
       [] code = Str("1.01.02") -> 30
       [] code = Str("2.03") -> 400
       [] code = Str("2.01.04") -> 100
       [] code = Str("2.02.01") -> 200
       [] code = Str("3.01") -> 2000
       [] code = Str("3.03") -> 800
       [] code = Str("3.05") -> 300
       [] code = Str("3.11") -> 150)
    + (IF YearOf(pend) = 2021 THEN 100 ELSE 0)

\* the cells of the annual report of 2021: every account for 2021, and the
\* accounts of the statements' totals for 2020 as well
PerformanceCells ==
    << <<Str("1"), 2020>>, <<Str("2.03"), 2020>>, <<Str("3.01"), 2020>>,
       <<Str("3.03"), 2020>>, <<Str("3.05"), 2020>>, <<Str("3.11"), 2020>>,
       <<Str("1"), 2021>>, <<Str("1.01.01"), 2021>>, <<Str("1.01.02"), 2021>>,
       <<Str("2.01.04"), 2021>>, <<Str("2.02.01"), 2021>>,
       <<Str("2.03"), 2021>>, <<Str("3.01"), 2021>>, <<Str("3.03"), 2021>>,
       <<Str("3.05"), 2021>>, <<Str("3.11"), 2021>> >>

\* the row filed for a cell, with the amount of the report or with zero
PerformanceFact(cell, zero) ==
    LET pend == Date(cell[2], 12, 31)
    IN  MkFact("cvm1", "annual", cell[1], pend, 1, "Name A",
               IF cell[2] = 2021 THEN 0 ELSE -1, "consolidated", YearStart(pend),
               IF zero THEN 0 ELSE PerformanceAmountOf(cell[1], pend))

\* the datasets with the annual report of 2021, of which at most MaxVar
\* cells are filed as zero or left out
PerformanceDatasets ==
    LET cells == DOMAIN PerformanceCells
        few == {S \in SUBSET cells : Cardinality(S) <= MaxVar}
        table(zero, absent) ==
            Flatten([i \in cells |->
                IF i \in absent THEN <<>>
                ELSE <<PerformanceFact(PerformanceCells[i], i \in zero)>>])
    IN  {table(v[1], v[2]) \o OtherCorpFacts :
            v \in {w \in few \X few : /\ w[1] \cap w[2] = {}
                                      /\ Cardinality(w[1] \cup w[2]) <= MaxVar}}

SeriesArgs == UNION {[1..n -> {Num(1), Num(2), NaN}] : n \in 0..MaxLen}

\* Corporation.shift_right(s, is_shifted), Finance.shift_right(s, is_on)
ShiftRightCall ==
    /\ \E s \in SeriesArgs, is_shifted \in BOOLEAN :
         /\ call' = [op |-> "shift_right", s |-> s, is_shifted |-> is_shifted]
         /\ ret' = [kind |-> "return", series |-> ShiftRight(s, is_shifted)]
    /\ ncalls' = ncalls + 1
    /\ UNCHANGED <<DATASET, corp, fin, fldb>>

\* corp.operating_performance(is_shifted)
CorpOperatingPerformanceCall ==
    /\ corp # NoObject
    /\ \E is_shifted \in BOOLEAN :
         /\ call' = [op |-> "operating_performance", class |-> "Corporation",
                     is_shifted |-> is_shifted]
         /\ ret' = CorpOperatingPerformance(corp, is_shifted)
    /\ corp' = CorpAfterReport(
                   CorpAfterReport(
                       CorpAfterReport(corp, DefaultArgs("assets")),
                       DefaultArgs("liabilities_and_equity")),
                   DefaultArgs("income"))
    /\ ncalls' = ncalls + 1
    /\ UNCHANGED <<DATASET, fin, fldb>>

\* fin.operating_performance(is_on)
FinOperatingPerformanceCall ==
    /\ fin # NoObject
    /\ \E is_on \in BOOLEAN :
         /\ call' = [op |-> "operating_performance", class |-> "Finance",
                     is_shifted |-> is_on]
         /\ ret' = FinOperatingPerformance(fin, is_on)
    /\ fin' = FinAfterGetCompanyDf(fin)
    /\ ncalls' = ncalls + 1
    /\ UNCHANGED <<DATASET, corp, fldb>>

InitRatio ==
    /\ DATASET \in PerformanceDatasets
    /\ corp = NewCorporation(DATASET, "cvm1")
    /\ fin = NewFinance(DATASET, FinDefaultArgs).obj
    /\ call = NoCall
    /\ ret = NoReturn
    /\ ncalls = 0
    /\ fldb = NoObject

NextRatio ==
    /\ ncalls < MaxCalls
    /\ \/ ShiftRightCall
       \/ CorpOperatingPerformanceCall
       \/ FinOperatingPerformanceCall

SpecRatio == InitRatio /\ [][NextRatio]_vars

----------------------------------------------------------------------------
(* Calls made one after the other on the same objects *)

\* special_report(accounts, unit, first_period): the four reports one under
\* the other, cut to the rows of the accounts asked for
CorpSpecialReport(obj, accounts, unit, first_period) ==
    LET args(t) == [DefaultArgs(t) EXCEPT !.unit = unit,
                                          !.first_period = first_period]
        df_as == CorpReport(obj, args("assets"))
        df == Concat(<< df_as.report,
                        CorpReport(obj, args("liabilities_and_equity")).report,
                        CorpReport(obj, args("income")).report,
                        CorpReport(obj, args("cash_flow")).report >>)
    IN  IF df_as.kind = "raise" THEN df_as
        ELSE Returned([df EXCEPT !.rows =
                          SelectSeq(df.rows,
                                    LAMBDA r : r.account_code \in accounts)],
                      <<>>)

\* corp.special_report(accounts, unit, first_period)
CorpSpecialReportCall ==
    /\ corp # NoObject
    /\ \E unit \in {Num(1), Num(0)},
          first_period \in {Str("2009-01-01"), Str("2022-01-01")} :
         LET a(t) == [DefaultArgs(t) EXCEPT !.unit = unit,
                                            !.first_period = first_period]
         IN  /\ call' = [op |-> "special_report",
                         accounts |-> {Str("1"), Str("3.11")},
                         unit |-> unit, first_period |-> first_period]
             /\ ret' = CorpSpecialReport(corp, {Str("1"), Str("3.11")}, unit,
                                         first_period)
             /\ corp' = CorpAfterReport(
                            CorpAfterReport(
                                CorpAfterReport(
                                    CorpAfterReport(corp, a("assets")),
                                    a("liabilities_and_equity")),
                                a("income")),
                            a("cash_flow"))
    /\ ncalls' = ncalls + 1
    /\ UNCHANGED <<DATASET, fin, fldb>>

\* the company has filed up to MaxFrameFacts rows of income accounts or of
\* assets, or the whole annual report of 2021
InitFrame ==
    /\ DATASET \in
           Datasets(FlowFacts \cup
                        {BalanceFact(Str("1"), Date(2021, 12, 31), 1, "Name A", 0,
                                     "separate")},
                    MaxFrameFacts)
           \cup {d \in PerformanceDatasets :
                    /\ Len(d) = Len(PerformanceCells) + Len(OtherCorpFacts)
                    /\ \A i \in DOMAIN d : d[i].account_value # Num(0)}
    /\ corp = NewCorporation(DATASET, "cvm1")
    /\ \E first_period \in {Str("2009-12-31"), Str("2022-01-01")} :
           fin = NewFinance(DATASET, [FinDefaultArgs EXCEPT
                                         !.first_period = first_period]).obj
    /\ call = NoCall
    /\ ret = NoReturn
    /\ ncalls = 0
    /\ fldb = NoObject

NextFrame ==
    /\ ncalls < MaxSeq
    /\ \/ CorpReportCall(
              { DefaultArgs("assets"),
                [DefaultArgs("income") EXCEPT !.first_period = Str("2022-01-01")],
                [DefaultArgs("assets") EXCEPT !.unit = Num(0)] })
       \/ CorpSpecialReportCall
       \/ CorpOperatingPerformanceCall
       \/ FinAssetsRead
       \/ FinIncomeRead
       \/ FinOperatingPerformanceCall

SpecFrame == InitFrame /\ [][NextFrame]_vars

----------------------------------------------------------------------------
(* Calls on tables with malformed account codes *)

\* rows of the annual report of 2021 with well-formed and malformed codes
FormatFacts ==
    {BalanceFact(c, Date(2021, 12, 31), 1, "Name A", 0, b) :
        c \in {Str("1"), Str("1.01"), Str(""), Str("x.01")},
        b \in {"consolidated", "separate"}}

InitFormat ==
    /\ DATASET \in Datasets(FormatFacts, MaxFacts)
    /\ corp = NewCorporation(DATASET, "cvm1")
    /\ fin = NewFinance(DATASET, FinDefaultArgs).obj
    /\ call = NoCall
    /\ ret = NoReturn
    /\ ncalls = 0
    /\ fldb = NoObject

NextFormat ==
    /\ ncalls < MaxCalls
    /\ \/ CorpReportCall({[DefaultArgs("assets") EXCEPT !.accounting_basis = b] :
                              b \in {"consolidated", "separate"}})
       \/ FinAssetsRead
       \/ CompanyAssetsRead

SpecFormat == InitFormat /\ [][NextFormat]_vars

----------------------------------------------------------------------------
(* Assignments of the identity of an existing object *)

\* corp.identity = value
CorpIdentityAssign ==
    /\ corp # NoObject
    /\ \E value \in {"cvm1", "cvm2", "fiscal1", "fiscal2", "cvm9"} :
         LET s == SetIdentity(DATASET, corp, value)
         IN  /\ call' = [op |-> "identity", value |-> value]
             /\ ret' = IF s.raised = "none" THEN [kind |-> "return"]
                       ELSE Raised(s.raised, <<>>)
             /\ corp' = s.obj
    /\ ncalls' = ncalls + 1
    /\ UNCHANGED <<DATASET, fin, fldb>>

\* fin.corporation_id = value
FinCorporationIdAssign ==
    /\ fin # NoObject
    /\ \E value \in {"cvm1", "cvm2", "fiscal1", "fiscal2", "cvm9"} :
         LET s == SetCorporationId(DATASET, fin, value)
         IN  /\ call' = [op |-> "corporation_id", value |-> value]
             /\ ret' = IF s.raised = "none" THEN [kind |-> "return"]
                       ELSE Raised(s.raised, <<>>)
             /\ fin' = s.obj
    /\ ncalls' = ncalls + 1
    /\ UNCHANGED <<DATASET, corp, fldb>>

\* the company has filed account "1" for some of three periods; the other
\* company of the dataset has its own row
InitId ==
    /\ DATASET \in
           Datasets({BalanceFact(Str("1"), e, 1, "Name A", 0, "consolidated") :
                        e \in {Date(2020, 12, 31), Date(2021, 12, 31),
                               Date(2022, 6, 30)}},
                    MaxFrameFacts)
    /\ corp = NewCorporation(DATASET, "cvm1")
    /\ fin = NewFinance(DATASET, FinDefaultArgs).obj
    /\ call = NoCall
    /\ ret = NoReturn
    /\ ncalls = 0
    /\ fldb = NoObject

NextId ==
    /\ ncalls < MaxIdCalls
    /\ \/ CorpIdentityAssign
       \/ FinCorporationIdAssign
       \/ CorpReportCall({DefaultArgs("assets")})
       \/ FinAssetsRead

SpecId == InitId /\ [][NextId]_vars

----------------------------------------------------------------------------
(* Reports in several units *)

\* the company has filed some of: the year 2021, the first half of 2022 and
\* its comparative, for the income account 3.11 and for the earnings per
\* share 3.99.01.01, and the assets of 2021
InitUnit ==
    /\ DATASET \in
           Datasets({FlowFact(c, "annual", Date(2021, 12, 31), 0,
                              Date(2021, 1, 1)) :
                        c \in {Str("3.11"), Str("3.99.01.01")}}
                    \cup {FlowFact(c, "quarterly", Date(2022, 6, 30), 0,
                                   Date(2022, 1, 1)) :
                             c \in {Str("3.11"), Str("3.99.01.01")}}
                    \cup {FlowFact(c, "quarterly", Date(2021, 6, 30), -1,
                                   Date(2021, 1, 1)) :
                             c \in {Str("3.11"), Str("3.99.01.01")}}
                    \cup {BalanceFact(Str("1"), Date(2021, 12, 31), 1, "Name A",
                                      0, "consolidated")},
                    MaxUnitFacts)
    /\ corp = NewCorporation(DATASET, "cvm1")
    /\ \E unit \in {Num(1), Num(2), Num(1000)} :
           fin = NewFinance(DATASET, [FinDefaultArgs EXCEPT !.unit = unit]).obj
    /\ call = NoCall
    /\ ret = NoReturn
    /\ ncalls = 0
    /\ fldb = NoObject

NextUnit ==
    /\ ncalls < MaxCalls
    /\ \/ CorpReportCall({[DefaultArgs(t) EXCEPT !.unit = unit] :
                              t \in {"assets", "income"},
                              unit \in {Num(1), Num(2), Num(1000)}})
       \/ FinAssetsRead
       \/ FinIncomeRead

SpecUnit == InitUnit /\ [][NextUnit]_vars

----------------------------------------------------------------------------
(* finlogic.database: update_database *)

\* cvm.update_cvm_files(urls): the raw folder after it has downloaded the
\* files that changed remotely, each as a new version of the file
UpdateCvmFiles(raw_folder, urls_data) ==
    [f \in DOMAIN raw_folder \cup urls_data |->
        IF f \notin urls_data THEN raw_folder[f]
        ELSE IF f \in DOMAIN raw_folder THEN raw_folder[f] + 1 ELSE 1]

\* update_database(): the CVM files are updated in the raw folder and the
\* language table is processed; the function then returns urls_df (line
\* 128), ahead of the statements that load files into the reports table
UpdateDatabase ==
    /\ fldb # NoObject
    /\ \E urls_data \in SUBSET (1..MaxFiles) :
         /\ fldb' = [fldb EXCEPT
                        !.raw_folder = UpdateCvmFiles(fldb.raw_folder, urls_data)]
         /\ call' = [op |-> "update_database"]
         /\ ret' = [kind |-> "return", urls_df |-> urls_data]
    /\ ncalls' = ncalls + 1
    /\ UNCHANGED <<DATASET, corp, fin>>

\* the raw folder holds the first version of some of the files, and the
\* reports table the rows of some of these (source_file and version)
InitDb ==
    /\ DATASET = <<>>
    /\ corp = NoObject
    /\ fin = NoObject
    /\ call = NoCall
    /\ ret = NoReturn
    /\ ncalls = 0
    /\ \E present \in SUBSET (1..MaxFiles) :
           \E loaded \in SUBSET present :
               fldb = [ class |-> "fldb",
                        raw_folder |-> [f \in present |-> 1],
                        reports |-> {<<f, 1>> : f \in loaded} ]

NextDb == ncalls < MaxCalls /\ UpdateDatabase

SpecDb == InitDb /\ [][NextDb]_vars

----------------------------------------------------------------------------
(* What the claims speak of *)

ReportReturned == call.op = "report" /\ ret.kind = "return"

RowCodes(report) == Range(Column(report.rows, "account_code"))

\* the number of dot-separated segments of an account code
NumSegments(code) == Len(SplitDots(code))

\* the segments of an account code as numbers
SegmentValues(code) ==
    LET segs == SplitDots(code) IN [i \in DOMAIN segs |-> DecVal(segs[i])]

RECURSIVE NumSeqLess(_, _)
NumSeqLess(a, b) ==
    IF a = <<>> THEN b # <<>>
    ELSE IF b = <<>> THEN FALSE
    ELSE IF a[1] = b[1] THEN NumSeqLess(Tail(a), Tail(b))
    ELSE a[1] < b[1]

\* segment-wise numeric order of account codes
SegmentLeq(a, b) ==
    \/ SegmentValues(a) = SegmentValues(b)
    \/ NumSeqLess(SegmentValues(a), SegmentValues(b))

\* the regulator's format X.YY.ZZ.WW...: one digit, then two-digit segments
IsFixedFormat(code) ==
    LET segs == SplitDots(code)
    IN  /\ Len(segs[1]) = 1
        /\ \A i \in 2..Len(segs) : Len(segs[i]) = 2
        /\ \A i \in DOMAIN code : code[i] = "." \/ IsDigit(code[i])

\* the rows of the object's table that a report() call with arguments a
\* selects, the level filter left aside: basis, first period, report type and
\* the periods a report keeps
InScope(obj, a) ==
    CorpKeptRows(obj,
        SelectSeq(obj.CORP_DF,
              LAMBDA r : /\ r.accounting_basis = a.accounting_basis
                         /\ DateGe(r.period_end, ToDatetime(a.first_period))
                         /\ \E p \in AccountPrefixes(a.report_type) :
                                StartsWith(r.account_code, p)))

----------------------------------------------------------------------------
(* C1 *)

\* no two rows of the company's table state the same account for the same
\* period in the same report version
OneFactPerVersion(df) ==
    \A i, j \in DOMAIN df :
        i # j => \/ df[i].account_code # df[j].account_code
                 \/ df[i].period_end # df[j].period_end
                 \/ df[i].report_version # df[j].report_version
                 \/ df[i].accounting_basis # df[j].accounting_basis

\* C1 (as claimed): a report has one row per distinct account code of the
\* facts it retains, and no two rows with the same account code, also when an
\* account and period were filed in several report versions.
C1_OneRowPerAccountCode ==
    (ReportReturned /\ OneFactPerVersion(corp.CORP_DF)) =>
        /\ \A i, j \in DOMAIN ret.report.rows :
               i # j => ret.report.rows[i].account_code
                            # ret.report.rows[j].account_code
        /\ RowCodes(ret.report) =
               {r.account_code : r \in
                   {q \in Range(InScope(corp, call.args)) :
                       call.args.account_level # NoLevel =>
                           Len(q.account_code)
                               <= AccountCodeLimit(call.args.account_level[1])}}

----------------------------------------------------------------------------
(* C2, C3 *)

LtmCalled == call.op \in {"_calculate_ltm", "calculate_ltm"}

\* the latest annual and latest quarterly period_end the reconstruction
\* goes by: the object's attributes in Corporation, those of the frame in
\* Finance
LtmLastAnnual ==
    IF call.op = "_calculate_ltm" THEN corp.LAST_ANNUAL
    ELSE DateMax(Range(Column(AnnualRows(call.df_flow), "period_end")))
LtmLastQuarterly ==
    IF call.op = "_calculate_ltm" THEN corp.LAST_QUARTERLY
    ELSE DateMax(Range(Column(QuarterlyRows(call.df_flow), "period_end")))

\* the tag of the reconstructed rows
LtmTag == IF call.op = "_calculate_ltm" THEN "quarterly" ELSE "ltm"

OfCode(df, c) == SelectSeq(df, LAMBDA r : r.account_code = c)

\* the year-to-date rows of the latest quarter, the year-to-date comparative
\* rows filed with it, and the rows of the latest annual period
YearToDateRows(df) ==
    SelectSeq(df, LAMBDA r : /\ DateEq(r.period_end, LtmLastQuarterly)
                         /\ r.period_begin = YearStart(LtmLastQuarterly))
ComparativeRows(df) ==
    SelectSeq(df, LAMBDA r : /\ DateEq(r.period_reference, LtmLastQuarterly)
                         /\ r.period_begin
                                = MinusOneYear(YearStart(LtmLastQuarterly)))
LastAnnualRows(df) ==
    SelectSeq(df, LAMBDA r : DateEq(r.period_end, LtmLastAnnual))

\* C2: when the latest quarter is later than the latest annual period and an
\* account has one year-to-date row Q of the latest quarter, one prior-year
\* comparative row C filed with it and one row A of the latest annual period,
\* the reconstruction returns one LTM row for the account, of value
\* Q - C + A.
C2_LtmIsQuarterMinusComparativePlusAnnual ==
    (LtmCalled /\ DateGt(LtmLastQuarterly, LtmLastAnnual)) =>
        \A c \in Range(Column(call.df_flow, "account_code")) :
            LET q == OfCode(YearToDateRows(call.df_flow), c)
                p == OfCode(ComparativeRows(call.df_flow), c)
                a == OfCode(LastAnnualRows(call.df_flow), c)
                ltm == SelectSeq(OfCode(ret.df, c), LAMBDA r : r.report_type = LtmTag)
            IN  (Len(q) = 1 /\ Len(p) = 1 /\ Len(a) = 1) =>
                    /\ Len(ltm) = 1
                    /\ ltm[1].account_value =
                           FAdd(FSub(q[1].account_value, p[1].account_value),
                                a[1].account_value)

\* Q = 600, C = 450, A = 1000 of account 3.11 gave an LTM row of 1150
C2_Witness ==
    /\ LtmCalled
    /\ DateGt(LtmLastQuarterly, LtmLastAnnual)
    /\ Column(OfCode(YearToDateRows(call.df_flow), Str("3.11")), "account_value")
           = <<Num(600)>>
    /\ Column(OfCode(ComparativeRows(call.df_flow), Str("3.11")), "account_value")
           = <<Num(450)>>
    /\ Column(OfCode(LastAnnualRows(call.df_flow), Str("3.11")), "account_value")
           = <<Num(1000)>>
    /\ \E i \in DOMAIN ret.df :
           /\ ret.df[i].report_type = LtmTag
           /\ ret.df[i].account_code = Str("3.11")
           /\ ret.df[i].account_value = Num(1150)

\* C3 (as claimed): when the latest annual period_end is later than or equal
\* to the latest quarterly period_end, the reconstruction returns exactly the
\* annual rows of its input.
C3_AnnualRowsWhenAnnualNotEarlier ==
    (LtmCalled /\ DateGe(LtmLastAnnual, LtmLastQuarterly)) =>
        ret.df = AnnualRows(call.df_flow)

----------------------------------------------------------------------------
(* C4 *)

\* C4 (as claimed): the rows of a report are in segment-wise numeric order of
\* account_code.
C4_RowsInSegmentOrder ==
    ReportReturned =>
        \A i, j \in DOMAIN ret.report.rows :
            i < j => SegmentLeq(ret.report.rows[i].account_code,
                                ret.report.rows[j].account_code)

\* C4 (amended): the rows of a report are in ascending character-string order
\* of account_code, which is the segment-wise numeric order when the codes
\* are all in the format X.YY.ZZ...
C4_RowsInStringOrder ==
    ReportReturned =>
        /\ \A i, j \in DOMAIN ret.report.rows :
               i < j => StrLeq(ret.report.rows[i].account_code,
                               ret.report.rows[j].account_code)
        /\ (\A c \in RowCodes(ret.report) : IsFixedFormat(c)) =>
               \A i, j \in DOMAIN ret.report.rows :
                   i < j => SegmentLeq(ret.report.rows[i].account_code,
                                       ret.report.rows[j].account_code)

\* a report whose rows "1.10", "1.2" are in string order and not in numeric
\* order
C4_Witness ==
    /\ ReportReturned
    /\ Column(ret.report.rows, "account_code") = <<Str("1.10"), Str("1.2")>>

----------------------------------------------------------------------------
(* C5 *)

AssetsRead == call.op = "assets" /\ ret.kind = "return"

\* the facts a read of fin.assets works on: the company's asset rows of the
\* selected basis, periods and levels that are annual or of the last period
FinInScope(obj) ==
    LET df == FinSelected(obj, Str("1"))
        last == DateMax(Range(Column(df, "period_end")))
    IN  SelectSeq(df, LAMBDA r : r.report_type = "annual" \/ DateEq(r.period_end, last))

\* the cells a report shows for an account in the column of a period
CellsOf(report, code, period_end) ==
    {report.rows[i].cells[k] :
        i \in {j \in DOMAIN report.rows : report.rows[j].account_code = code},
        k \in {l \in DOMAIN report.columns :
                  report.columns[l] = DatetimeAsString(period_end)}}

\* C5 (as claimed): when an account has two facts for the same period_end
\* that differ in report_version (and are its only facts of that year), the
\* Finance report shows the value of the higher version, whatever the order
\* of the rows in the dataset.
C5_HighestVersionWins ==
    AssetsRead =>
        LET df == FinInScope(fin)
        IN  \A i, j \in DOMAIN df :
                ( /\ df[i].account_code = df[j].account_code
                  /\ df[i].period_end = df[j].period_end
                  /\ df[i].period_reference = df[j].period_reference
                  /\ df[i].account_name = df[j].account_name
                  /\ df[i].report_version < df[j].report_version
                  /\ \A k \in DOMAIN df :
                         (k \notin {i, j}) =>
                             ~SameOn(df[k], df[i], {"financial_year", "account_code"}) )
                => CellsOf(ret.report, df[j].account_code, df[j].period_end)
                       = {df[j].account_value}

----------------------------------------------------------------------------
(* C6 *)

\* C6 (as claimed): with account_level L the report keeps exactly the
\* accounts of at most L segments, with None all of them.
C6_KeepsAtMostLSegments ==
    ReportReturned =>
        RowCodes(ret.report) =
            {r.account_code : r \in
                {q \in Range(InScope(corp, call.args)) :
                    call.args.account_level # NoLevel =>
                        NumSegments(q.account_code) <= call.args.account_level[1]}}

\* C6 (amended): with account_level L the report keeps exactly the accounts
\* whose code has at most 3L - 2 characters, with None all of them; for codes
\* in the format X.YY.ZZ.WW these are the codes of at most L segments.
C6_KeepsAtMostLimitChars ==
    ReportReturned =>
        LET level == call.args.account_level
            scope == Range(InScope(corp, call.args))
        IN  /\ RowCodes(ret.report) =
                   {r.account_code : r \in
                       {q \in scope :
                           level # NoLevel => Len(q.account_code) <= 3 * level[1] - 2}}
            /\ \A q \in scope :
                   (level # NoLevel /\ IsFixedFormat(q.account_code)) =>
                       (q.account_code \in RowCodes(ret.report)
                            <=> NumSegments(q.account_code) <= level[1])

\* level 3 kept "1" and dropped the four-segment "1.01.01.01"
C6_Witness ==
    /\ ReportReturned
    /\ call.args.account_level = Level(3)
    /\ RowCodes(ret.report) = {Str("1")}
    /\ Str("1.01.01.01") \in Range(Column(InScope(corp, call.args), "account_code"))

----------------------------------------------------------------------------
(* C7, C8 *)

PerformanceReturned == call.op = "operating_performance" /\ ret.kind = "return"

\* the reports' figures as operating_performance gets them, a figure no
\* report has being NaN
PerformanceFigures ==
    IF call.class = "Corporation" THEN Concat(CorpPerformanceReports(corp))
    ELSE Concat(FinPerformanceReports(fin))

\* the frame the class computes on
PerformanceFrame ==
    IF call.class = "Corporation" THEN FillNa(PerformanceFigures)
    ELSE PerformanceFigures

ZeroOrMissing(x) == IsNaN(x) \/ x = Num(0)

\* the period of a column of a report
PeriodOfLabel(label) == ToDatetime(SubSeq(label, 1, 10))

\* C7 (as claimed): a cell of operating_performance whose denominator
\* (revenue, or the shifted total assets or equity) is zero or missing is
\* "no data".
C7_NoDataOnZeroOrMissingDenominator ==
    PerformanceReturned =>
        LET revenues == Loc(PerformanceFigures, Str("3.01"))
            total_assets == ShiftRight(Loc(PerformanceFigures, Str("1")),
                                       call.is_shifted)
            equity == ShiftRight(Loc(PerformanceFigures, Str("2.03")), call.is_shifted)
        IN  \A k \in DOMAIN ret.columns :
                /\ ZeroOrMissing(revenues[k]) =>
                       /\ IsNaN(ret.gross_margin[k])
                       /\ IsNaN(ret.operating_margin[k])
                       /\ IsNaN(ret.net_margin[k])
                /\ ZeroOrMissing(total_assets[k]) =>
                       IsNaN(ret.return_on_assets[k])
                /\ ZeroOrMissing(equity[k]) => IsNaN(ret.return_on_equity[k])

\* C8 (as claimed, for a series that is not empty): shift_right with the
\* flag on returns a series as long as its input, "no data" first and then
\* the input without its last value; with the flag off it returns its
\* input. With the flag on, the return ratios of the earliest period are
\* "no data" and those of any other period divide by the total assets and
\* the equity of the period before it.
C8_ShiftRightGivesPriorPeriod ==
    /\ (call.op = "shift_right" /\ call.s # <<>>) =>
           IF call.is_shifted
           THEN /\ Len(ret.series) = Len(call.s)
                /\ \A i \in DOMAIN ret.series :
                       ret.series[i] = IF i = 1 THEN NaN ELSE call.s[i - 1]
           ELSE ret.series = call.s
    /\ (PerformanceReturned /\ call.is_shifted) =>
           LET period(k) == PeriodOfLabel(ret.columns[k])
               after_tax == SMul(Loc(PerformanceFrame, Str("3.05")),
                                 FSub(Num(1), TAX_RATE))
           IN  \A k \in DOMAIN ret.columns :
                   IF \A l \in DOMAIN ret.columns : period(l) >= period(k)
                   THEN /\ IsNaN(ret.return_on_assets[k])
                        /\ IsNaN(ret.return_on_equity[k])
                        /\ IsNaN(ret.return_on_capital[k])
                   ELSE LET j == CHOOSE l \in DOMAIN ret.columns :
                                     /\ period(l) < period(k)
                                     /\ \A m \in DOMAIN ret.columns :
                                            period(m) < period(k)
                                                => period(m) <= period(l)
                        IN  /\ ret.return_on_assets[k] =
                                   FDiv(after_tax[k], Loc(PerformanceFrame, Str("1"))[j])
                            /\ ret.return_on_equity[k] =
                                   FDiv(Loc(PerformanceFrame, Str("3.11"))[k],
                                        Loc(PerformanceFrame, Str("2.03"))[j])

----------------------------------------------------------------------------
(* C9 *)

\* C9 (as claimed): report() with a first_period that is no date raises a
\* validation error before it touches a fact.
C9_UnparseableFirstPeriodRaises ==
    (call.op = "report" /\ ToDatetime(call.args.first_period) = NaT) =>
        ret = Raised("ValueError", <<>>)

----------------------------------------------------------------------------
(* C10 *)

InvalidConfiguration(a) ==
    \/ a.accounting_basis \notin {"consolidated", "separate"}
    \/ a.unit[1] <= 0
    \/ a.account_level \notin {NoLevel, Level(2), Level(3), Level(4)}

\* C10: a report() call with a basis other than consolidated/separate, a
\* unit <= 0 or a level outside {None, 2, 3, 4} raises ValueError before any
\* step that filters, scales or pivots facts, and leaves the object and the
\* dataset as they were.
C10_InvalidConfigurationRaises ==
    [][ (call'.op = "report" /\ ncalls' = ncalls + 1
            /\ InvalidConfiguration(call'.args)) =>
            /\ ret' = Raised("ValueError", <<>>)
            /\ corp' = corp
            /\ DATASET' = DATASET ]_vars

\* a call with unit 0 was made and raised
C10_Witness ==
    /\ call.op = "report"
    /\ call.args.unit = Num(0)
    /\ ret.kind = "raise"

----------------------------------------------------------------------------
(* C11 *)

\* C11: no call of report(), special_report() or operating_performance() on
\* a Corporation and no read of a report property of a Finance object
\* changes DATASET or the object's table of the company's facts: after any
\* sequence of them the rows, their values and their order are the same.
C11_FactTablesUnchanged ==
    [][ /\ DATASET' = DATASET
        /\ corp'.CORP_DF = corp.CORP_DF
        /\ fin'.MAIN_DF = fin.MAIN_DF ]_vars

\* two calls were made, the last a report from 2022 on, and the table still
\* has the rows of earlier periods
C11_Witness ==
    /\ ncalls = 2
    /\ ReportReturned
    /\ call.args.first_period = Str("2022-01-01")
    /\ \E i \in DOMAIN corp.CORP_DF :
           corp.CORP_DF[i].period_end < Date(2022, 1, 1)

----------------------------------------------------------------------------
(* C12 *)

\* a call that returned a report built by _make_report
MadeReport ==
    call.op \in {"report", "assets", "income"} /\ ret.kind = "return"

\* the facts the report of the last call was pivoted from: those selected
\* for it, after the LTM reconstruction for income, that _make_report kept
RetainedRows ==
    CASE call.op = "report" ->
            CorpKeptRows(corp,
                IF call.args.report_type \in {"income", "cash_flow"}
                THEN CorpCalculateLtm(corp, CorpSelected(corp, call.args))
                ELSE CorpSelected(corp, call.args))
      [] call.op = "assets" -> FinKeptRows(FinSelected(fin, Str("1")))
      [] call.op = "income" ->
            FinKeptRows(FinCalculateLtm(FinSelected(fin, Str("3"))))

IsLtmLabel(label) ==
    Len(label) > 10 /\ SubSeq(label, 11, Len(label)) = Str(" (ltm)")

----------------------------------------------------------------------------
(* C13 *)

\* an account code that is empty or does not start with a digit
Malformed(code) == code = <<>> \/ ~IsDigit(code[1])

\* the codes of the company's rows that the last call had to classify: those
\* of the basis and periods it selects
CodesClassified ==
    LET basis == CASE call.op = "report" -> call.args.accounting_basis
                   [] call.op = "assets" -> fin.report_type
                   [] call.op = "company_assets" -> call.fs_type
    IN  {r.account_code : r \in
            {q \in Range(corp.CORP_DF) : q.accounting_basis = basis}}

\* C13 (as claimed): a call that meets a fact with a malformed account code
\* fails with an error.
C13_MalformedCodeRaises ==
    (call.op \in {"report", "assets", "company_assets"}
        /\ \E c \in CodesClassified : Malformed(c)) => ret.kind = "raise"

\* C13 (amended): Corporation.report and the Finance report properties raise
\* nothing for a malformed account code; the fact matches the prefix of no
\* report type and is left out of the report, which has the rows of the
\* other facts. Company() raises ValueError when a code of its rows starts
\* with a character that is no digit, and does not when the malformed codes
\* are all empty.
C13_MalformedCodeLeftOut ==
    /\ call.op \in {"report", "assets"} =>
           /\ ret.kind = "return"
           /\ RowCodes(ret.report) =
                  {c \in CodesClassified : StartsWith(c, Str("1"))}
           /\ \A c \in RowCodes(ret.report) : ~Malformed(c)
    /\ call.op = "company_assets" =>
           /\ (\E c \in CodesClassified : c # <<>> /\ ~IsDigit(c[1]))
                  => ret = Raised("ValueError", <<>>)
           /\ (\A c \in CodesClassified : c = <<>> \/ IsFixedFormat(c))
                  => ret.kind = "return"

\* a report of account "1" alone was returned for a company that has filed
\* a fact with code "x.01" on the same basis
C13_Witness ==
    /\ ReportReturned
    /\ Str("x.01") \in CodesClassified
    /\ RowCodes(ret.report) = {Str("1")}

----------------------------------------------------------------------------
(* C14 *)

\* the rows of the company that Company.assets hands to _make_bs
CompanyAssetRows ==
    SelectSeq(NewCompany(DATASET, call.cvm_number, call.start_period,
                         call.fs_type).df_main,
              LAMBDA r : r.ac_l1 = Num(1))

\* C14: the deduplication step of Finance._make_report and of
\* Company._make_bs (keep the annual rows and those of the latest quarterly
\* period, sort, keep the last row of each financial year and account code)
\* gives, applied to its own result, that result again.
C14_DeduplicationIdempotent ==
    /\ AssetsRead =>
           LET once == FinKeptRows(FinSelected(fin, Str("1")))
           IN  FinKeptRows(once) = once
    /\ (call.op = "company_assets" /\ ret.kind = "return") =>
           LET once == CompanyKeptRows(CompanyAssetRows)
           IN  CompanyKeptRows(once) = once

\* the step dropped one of the two rows the company had filed
C14_Witness ==
    /\ call.op = "company_assets"
    /\ ret.kind = "return"
    /\ Len(CompanyAssetRows) = 2
    /\ Len(CompanyKeptRows(CompanyAssetRows)) = 1

----------------------------------------------------------------------------
(* C15 *)

\* C15 (as claimed): when update_database() returns, the reports table has
\* the rows of the current version of every file that was updated remotely
\* and of every file of the raw folder it had no rows of before, so of the
\* whole raw folder when it was empty.
C15_UpdateLoadsFiles ==
    [][ (call'.op = "update_database" /\ ncalls' = ncalls + 1
            /\ ret'.kind = "return") =>
            \A f \in DOMAIN fldb'.raw_folder :
                (f \in ret'.urls_df \/ f \notin {r[1] : r \in fldb.reports})
                    => <<f, fldb'.raw_folder[f]>> \in fldb'.reports ]_vars

----------------------------------------------------------------------------
(* C16 *)

\* C16 (as claimed): when the latest quarter is later than the latest annual
\* period, the account codes of the reconstructed rows are those of the
\* year-to-date rows of the latest quarter, of the comparative rows filed
\* with it and of the rows of the latest annual period together.
C16_LtmCodesAreOuterUnion ==
    (LtmCalled /\ DateGt(LtmLastQuarterly, LtmLastAnnual)) =>
        Range(Column(SelectSeq(ret.df, LAMBDA r : r.report_type = LtmTag),
                     "account_code"))
            = Range(Column(YearToDateRows(call.df_flow), "account_code"))
                \cup Range(Column(ComparativeRows(call.df_flow), "account_code"))
                \cup Range(Column(LastAnnualRows(call.df_flow), "account_code"))

----------------------------------------------------------------------------
(* C17 *)

\* what the reconstruction returned after the annual rows of its input
ReconstructedRows ==
    SubSeq(ret.df, Len(AnnualRows(call.df_flow)) + 1, Len(ret.df))

\* the output is the annual rows of the input, unchanged, and then
\* reconstructed rows of the given tag, of the latest quarterly period_end
\* and of a period_begin one year before it, none of them a quarterly row of
\* the input
ReconstructionOutput(tag) ==
    /\ Len(ret.df) >= Len(AnnualRows(call.df_flow))
    /\ SubSeq(ret.df, 1, Len(AnnualRows(call.df_flow)))
           = AnnualRows(call.df_flow)
    /\ \A i \in DOMAIN ReconstructedRows :
           /\ ReconstructedRows[i].report_type = tag
           /\ ReconstructedRows[i].period_end = LtmLastQuarterly
           /\ ReconstructedRows[i].period_begin = MinusOneYear(LtmLastQuarterly)
    /\ \A i \in DOMAIN ret.df :
           ret.df[i] \notin Range(QuarterlyRows(call.df_flow))

\* C17 (as claimed): when the reconstruction happens, its output is every
\* annual row of the input, unchanged, and the reconstructed rows, each
\* tagged quarterly, with the latest quarterly period_end and a period_begin
\* one year before it; no quarterly row of the input is in the output.
C17_ReconstructedRowsTaggedQuarterly ==
    (LtmCalled /\ ~DateGt(LtmLastAnnual, LtmLastQuarterly)) =>
        ReconstructionOutput("quarterly")

\* C17 (amended): the same, with the reconstructed rows tagged quarterly by
\* Corporation._calculate_ltm and ltm by Finance.calculate_ltm.
C17_ReconstructedRowsTagged ==
    (LtmCalled /\ ~DateGt(LtmLastAnnual, LtmLastQuarterly)) =>
        ReconstructionOutput(LtmTag)

\* Finance.calculate_ltm was given annual and quarterly rows, the latest
\* quarter later than the latest annual period, and returned a row tagged ltm
C17_Witness ==
    /\ call.op = "calculate_ltm"
    /\ DateGt(LtmLastQuarterly, LtmLastAnnual)
    /\ AnnualRows(call.df_flow) # <<>>
    /\ QuarterlyRows(call.df_flow) # <<>>
    /\ ReconstructedRows # <<>>
    /\ ReconstructedRows[1].report_type = "ltm"

----------------------------------------------------------------------------
(* C18 *)

\* the company, the only one of the dataset, has filed no quarterly report
NoQuarterlyFiling == QuarterlyRows(DATASET) = <<>>

\* C18: when the company has no quarterly filing at all, the reconstruction
\* returns exactly the annual rows of its input, and an income report is
\* returned without error, with columns of the period_end of annual rows
\* only and none labelled as LTM.
C18_AnnualOnlyWithoutQuarterlyFiling ==
    NoQuarterlyFiling =>
        /\ LtmCalled =>
               /\ LtmLastQuarterly = NaT
               /\ ret.df = SelectSeq(call.df_flow,
                                     LAMBDA r : r.report_type = "annual")
        /\ (call.op = "income"
               \/ (call.op = "report" /\ call.args.report_type = "income")) =>
               /\ ret.kind = "return"
               /\ \A i \in DOMAIN ret.report.columns :
                      /\ ~IsLtmLabel(ret.report.columns[i])
                      /\ \E r \in Range(DATASET) :
                             /\ r.report_type = "annual"
                             /\ r.period_end
                                    = PeriodOfLabel(ret.report.columns[i])
               /\ \A i \in DOMAIN ret.report.rows :
                      \A j \in DOMAIN ret.report.rows[i].cells :
                          \E r \in Range(DATASET) :
                              /\ r.report_type = "annual"
                              /\ r.account_value = ret.report.rows[i].cells[j]

\* an income report of the year 2021 alone, from annual rows
C18_Witness ==
    /\ NoQuarterlyFiling
    /\ call.op = "report"
    /\ call.args.report_type = "income"
    /\ ret.kind = "return"
    /\ Len(ret.report.columns) = 1
    /\ PeriodOfLabel(ret.report.columns[1]) = Date(2021, 12, 31)
    /\ ret.report.rows # <<>>

----------------------------------------------------------------------------
(* C19, C20 *)

\* the rows handed to _make_report in the last call
MakeReportInput ==
    CASE call.op = "report" ->
            IF call.args.report_type \in {"income", "cash_flow"}
            THEN CorpCalculateLtm(corp, CorpSelected(corp, call.args))
            ELSE CorpSelected(corp, call.args)
      [] call.op = "assets" -> FinSelected(fin, Str("1"))
      [] call.op = "income" -> FinCalculateLtm(FinSelected(fin, Str("3")))

\* the rows _make_report kept of them before it removes any duplicate
KeptBeforeDeduplication ==
    IF call.op = "report" THEN CorpKeptRows(corp, MakeReportInput)
    ELSE FinKeptPeriods(MakeReportInput)

\* C19 (as claimed): of the rows handed to it, report building retains
\* every annual row and exactly the other rows whose period_end is the most
\* recent period_end of the rows that are not annual, whether or not the
\* latest annual period_end is later; with no such rows it retains all.
C19_KeepsAnnualAndLastQuarter ==
    MadeReport =>
        LET other == SelectSeq(MakeReportInput,
                               LAMBDA r : r.report_type # "annual")
            last == DateMax(Range(Column(other, "period_end")))
        IN  KeptBeforeDeduplication
                = SelectSeq(MakeReportInput,
                            LAMBDA r : r.report_type = "annual"
                                       \/ DateEq(r.period_end, last))

\* the facts of the scope the last call selected: basis, statement type and
\* period_end not before first_period
ScopeRows ==
    CASE call.op = "report" -> CorpSelected(corp, call.args)
      [] call.op = "assets" -> FinSelected(fin, Str("1"))
      [] call.op = "income" -> FinSelected(fin, Str("3"))

\* C20 (as claimed): the report has a value column for the period_end of
\* every annual fact of the scope selected, whatever its period_order and
\* whether or not a later annual filing has it as a comparative.
C20_ColumnForEveryAnnualPeriod ==
    MadeReport =>
        \A r \in Range(AnnualRows(ScopeRows)) :
            \E i \in DOMAIN ret.report.columns :
                PeriodOfLabel(ret.report.columns[i]) = r.period_end

----------------------------------------------------------------------------
(* C21 *)

\* C21 (as claimed): an account whose retained facts are of different
\* periods, one fact per period, has a single row in the report, and the
\* row shows the account_name and account_fixed of the retained fact with
\* the latest period_end, also when these differ between the periods.
C21_SingleRowWithLatestMetadata ==
    MadeReport =>
        \A c \in Range(Column(RetainedRows, "account_code")) :
            LET facts == OfCode(RetainedRows, c)
                last == DateMax(Range(Column(facts, "period_end")))
                rows == OfCode(ret.report.rows, c)
            IN  (\A i, j \in DOMAIN facts :
                     i # j => facts[i].period_end # facts[j].period_end)
                => /\ Len(rows) = 1
                   /\ \E i \in DOMAIN facts :
                          /\ facts[i].period_end = last
                          /\ rows[1].account_name = facts[i].account_name
                          /\ rows[1].account_fixed = facts[i].account_fixed

----------------------------------------------------------------------------
(* C22 *)

\* C22 (as claimed): the assignment of a value that is in neither id list
\* to the identity of a Corporation or to the corporation_id of a Finance
\* object raises an error and leaves the object as it was, its stored
\* identity included.
C22_UnknownIdentityLeavesObject ==
    [][ ( /\ ncalls' = ncalls + 1
          /\ call'.op \in {"identity", "corporation_id"}
          /\ call'.value \notin CORP_IDS(DATASET) \cup FISCAL_IDS(DATASET) )
        => /\ ret'.kind = "raise"
           /\ corp' = corp
           /\ fin' = fin ]_vars

----------------------------------------------------------------------------
(* C23 *)

\* C23 (as claimed): a report of an object whose stored identity is that of
\* a company of the dataset is the report an object newly made for that
\* company gives, whatever identities were assigned to the object before.
C23_ReportOfCompanyIdentified ==
    /\ (ReportReturned
           /\ corp.identity \in CORP_IDS(DATASET) \cup FISCAL_IDS(DATASET)) =>
           ret.report
               = CorpReport(NewCorporation(DATASET, corp.identity),
                            call.args).report
    /\ (AssetsRead
           /\ fin.corporation_id \in CVM_IDS(DATASET) \cup FISCAL_IDS(DATASET)) =>
           ret.report
               = FinAssets(NewFinance(DATASET,
                               [FinDefaultArgs EXCEPT
                                   !.corporation_id = fin.corporation_id]).obj)

----------------------------------------------------------------------------
(* C24 *)

\* the unit of the report of the last call, and the report the same call
\* gives with unit 1
UnitOfReport == IF call.op = "report" THEN call.args.unit ELSE fin.unit

ReportInUnitOne ==
    CASE call.op = "report" ->
            CorpReport(corp, [call.args EXCEPT !.unit = Num(1)]).report
      [] call.op = "assets" -> FinAssets([fin EXCEPT !.unit = Num(1)])
      [] call.op = "income" -> FinIncome([fin EXCEPT !.unit = Num(1)])

====
